---- MODULE Spec2Model ----
(***************************************************************************)
(* Build-and-release pipeline of the affiliate site generator: the admin   *)
(* handlers of app/routes/sites.py, the renderer's bookkeeping             *)
(* (services/site_builder.py), the tips pipeline's rebuild                 *)
(* (services/tips_pipeline.py) and the symlink-based deployer              *)
(* (services/deployer.py), against one remote host and one domain.         *)
(***************************************************************************)
EXTENDS Integers, Sequences, FiniteSets, TLC

(* Bounds of the model. *)
MaxBuilds == 2        \* successful renders in a behaviour of Spec
MaxSites == 2         \* sites created one after the other
ConcBuilds == 4       \* successful renders in a behaviour of SpecDeploys
DeployRequests == 2   \* deploy requests in flight in SpecDeploys
BuildRequests == 2    \* admin build requests in flight in SpecBuilds
MaxPages == 3         \* rows of site_pages
MaxGens == 3          \* contents the generator returns for one page
MaxHistory == 3       \* rows of content_history of one page
MaxTime == 2          \* timestamps told apart
MaxRelease == 11      \* highest release number on the host in the prune check
ConcWriters == 2      \* requests and threads writing one page's content at a time
MaxWrites == 3        \* content writes to the page in a behaviour of SpecWriters
MaxClock == 5         \* timestamps taken in a behaviour of SpecStale
StalePageCount == 2   \* pages of the site in SpecStale
DomainCount == 2      \* rows of domains in SpecDomains

(* deployer.py:25 *)
MAX_RELEASES == 3

(* Version numbers: n successful renders leave the counter at most at n + 1. *)
Versions == 1..((IF MaxBuilds > ConcBuilds THEN MaxBuilds ELSE ConcBuilds) + 1)
DeployThreads == 1..DeployRequests
BuildThreads == 1..BuildRequests

VARIABLES
    site,        \* the committed row of the one live Site (id = 0: no site)
    domain,      \* the committed row of the one Domain
    host,        \* the remote host: releases/, current symlink, vhost, certificate
    disk,        \* local release directories that hold a finished render
    nextSiteId,  \* next primary key of the sites table
    genJob,      \* id of the site whose bulk generation thread is running, or 0
    dep,         \* the deploy requests in progress (stepwise specifications)
    bld,         \* the admin build requests in progress (stepwise specifications)
    tip,         \* the tips pipeline rebuild in progress (stepwise specifications)
    last,        \* history: what the most recent operation did
    cycle,       \* history: progress through successive build-and-deploy cycles
    pages,       \* the rows of site_pages (site = 0: no row with that id)
    hist,        \* the rows of content_history, per page in insertion order
    gens,        \* per page, the number of contents the generator API has returned
    job,         \* the bulk generation thread: its position and local variables
    did,         \* history: what the most recent page operation did
    probe        \* the arguments and the result of a function under examination

pageVars == <<pages, hist, gens, job, did, probe>>

vars ==
    <<site, domain, host, disk, nextSiteId, genJob, dep, bld, tip, last, cycle,
      pages, hist, gens, job, did, probe>>

(***************************************************************************)
(* Rows and their column defaults.                                         *)
(***************************************************************************)
NewSite(id) ==
    [id |-> id, status |-> "draft", output_path |-> 0, current_version |-> 1,
     deployed_at |-> FALSE, domain |-> FALSE]

NewDomain == [status |-> "available", ssl_provisioned |-> FALSE]

EmptyHost ==
    [rel |-> [v \in Versions |-> "absent"], current |-> 0,
     nginx |-> "none", cert |-> FALSE]

(* A renderer that leaves the version out of the release path. *)
Dir_Unversioned(base, id, version) == <<base, id, 0>>

(* {outputBaseDir}/{siteId}/v{N} *)
Dir(base, id, version) == <<base, id, version>>

Idle == [pc |-> "idle", lv |-> 0, ssl |-> FALSE]

NoBuild == [pc |-> "idle", ver |-> 0]

L0 ==
    [op |-> "init", res |-> "ok", dir |-> <<>>, flipped |-> FALSE,
     emptyAbort |-> FALSE, installed |-> "none"]

C0 == [n |-> 0, prevServed |-> 0]

(***************************************************************************)
(* Site Renderer (site_builder.py build_site).  base is the output base    *)
(* directory the caller passes; renderOk says whether every page rendered  *)
(* and every file was written; d is the set of directories holding a       *)
(* finished render, and a render that raises leaves its directory          *)
(* unfinished.  The site record is the caller's session copy: output_path, *)
(* status and built_at are assigned only at the end.                       *)
(***************************************************************************)
build_site(s, base, d, renderOk) ==
    LET version == s.current_version
        version_dir == Dir(base, s.id, version)
    IN  IF renderOk
        THEN [s |-> [s EXCEPT !.output_path = version, !.status = "built"],
              d |-> d \cup {version_dir}, exc |-> FALSE, dir |-> version_dir]
        ELSE [s |-> s, d |-> d \ {version_dir}, exc |-> TRUE,
              dir |-> version_dir]

(* routes/sites.py build: the precondition on the status. *)
BuildAccepted(s) == s.status \in {"generated", "built"}

(* A handler that counts a failed render as a version. *)
BuildRoute_BumpOnFailure(s, d, renderOk) ==
    LET s1 == [s EXCEPT !.status = "building"]
        r == build_site(s1, "output", d, renderOk)
    IN  IF r.exc
        THEN [s |-> [s1 EXCEPT !.status = "failed", !.current_version = @ + 1],
              d |-> r.d, exc |-> TRUE, dir |-> r.dir]
        ELSE [s |-> [r.s EXCEPT !.current_version = @ + 1], d |-> r.d,
              exc |-> FALSE, dir |-> r.dir]

(* routes/sites.py build: the try/except around build_site. *)
BuildRoute(s, d, renderOk) ==
    LET s1 == [s EXCEPT !.status = "building"]
        r == build_site(s1, "output", d, renderOk)
    IN  IF r.exc
        THEN [s |-> [s1 EXCEPT !.status = "failed"], d |-> r.d, exc |-> TRUE,
              dir |-> r.dir]
        ELSE [s |-> [r.s EXCEPT !.current_version = @ + 1], d |-> r.d,
              exc |-> FALSE, dir |-> r.dir]

(***************************************************************************)
(* Deployment Engine (deployer.py).  The remote commands of deploy_site    *)
(* are numbered stages; an input record says which stage raises:           *)
(*   1 mkdir -p   2 upload loop   3 find (verification)   4 ln -sfn        *)
(*   5 write and mv the vhost file   6 enable and reload   7 certbot       *)
(*   8 prune: ls   (fail = 9: a later rm of the prune raises)              *)
(* walk: os.walk finds files under the local release directory;            *)
(* part: an upload that raises had already put a file; certOk: certbot     *)
(* exits 0; k: number of rm commands that ran before the failing one.      *)
(***************************************************************************)
Inputs ==
    {in \in [fail : 0..9, walk : BOOLEAN, part : BOOLEAN, certOk : BOOLEAN,
             k : 0..1] :
        /\ in.part => in.fail = 2 /\ in.walk
        /\ in.walk => in.fail # 1
        /\ in.certOk => in.fail \in {0, 8, 9}
        /\ in.k = 1 => in.fail = 9}

NoFailure == [fail |-> 0, walk |-> TRUE, part |-> FALSE, certOk |-> TRUE, k |-> 0]

(* deployer.py _generate_nginx_config: which of the two templates. *)
generate_nginx_config(ssl) == IF ssl THEN "ssl" ELSE "http"

RECURSIVE SortedFrom(_, _)
SortedFrom(S, acc) ==
    IF S = {} THEN acc
    ELSE LET m == CHOOSE x \in S : \A y \in S : x <= y
         IN  SortedFrom(S \ {m}, Append(acc, m))

(* deployer.py _prune_releases: the rm -rf targets, in order. *)
PruneTargets(rel, active_version) ==
    LET versions == SortedFrom({v \in Versions : rel[v] # "absent"}, <<>>)
        to_delete == IF Len(versions) > MAX_RELEASES
                     THEN SubSeq(versions, 1, Len(versions) - MAX_RELEASES)
                     ELSE <<>>
    IN  SelectSeq(to_delete, LAMBDA v : v # active_version)

(* deployer.py _prune_releases, with the outcome of its remote commands. *)
prune_releases(c, active_version, in) ==
    IF in.fail = 8 THEN [c EXCEPT !.exc = TRUE]
    ELSE LET targets == PruneTargets(c.h.rel, active_version)
             raises == in.fail = 9 /\ in.k < Len(targets)
             n == IF raises THEN in.k ELSE Len(targets)
             gone == {targets[i] : i \in 1..n}
         IN  [c EXCEPT !.h.rel = [v \in Versions |->
                                    IF v \in gone THEN "absent" ELSE @[v]],
                       !.exc = raises]

(* A deploy that skips the emptiness test of the uploaded release. *)
VerifyRelease_Unchecked(c, lv, in) ==
    IF in.fail = 3 \/ c.h.rel[lv] = "absent" THEN [c EXCEPT !.exc = TRUE] ELSE c

(* deployer.py deploy_site: find ... | head -1, RuntimeError when it prints  *)
(* nothing.                                                                *)
VerifyRelease(c, lv, in) ==
    IF in.fail = 3 \/ c.h.rel[lv] = "absent" THEN [c EXCEPT !.exc = TRUE]
    ELSE IF c.h.rel[lv] # "files"
         THEN [c EXCEPT !.exc = TRUE, !.emptyAbort = TRUE]
         ELSE c

(* A deploy in which a failing certbot ends the deploy. *)
DeployStage_CertbotFatal(n, c, lv, in) ==
    CASE n = 1 ->
           IF in.fail = 1 THEN [c EXCEPT !.exc = TRUE]
           ELSE [c EXCEPT !.h.rel[lv] = IF @ = "absent" THEN "empty" ELSE @]
      [] n = 2 ->
           IF in.fail = 2
           THEN [c EXCEPT !.h.rel[lv] = IF in.walk /\ in.part THEN "files" ELSE @,
                          !.exc = TRUE]
           ELSE [c EXCEPT !.h.rel[lv] = IF in.walk THEN "files" ELSE @]
      [] n = 3 -> VerifyRelease(c, lv, in)
      [] n = 4 ->
           IF in.fail = 4 THEN [c EXCEPT !.exc = TRUE]
           ELSE [c EXCEPT !.h.current = lv, !.flipped = TRUE]
      [] n = 5 ->
           IF in.fail = 5 THEN [c EXCEPT !.exc = TRUE]
           ELSE [c EXCEPT !.h.nginx = generate_nginx_config(c.ssl),
                          !.installed = generate_nginx_config(c.ssl)]
      [] n = 6 ->
           IF in.fail = 6 THEN [c EXCEPT !.exc = TRUE] ELSE c
      [] n = 7 ->
           IF c.ssl THEN c
           ELSE IF in.certOk
                THEN [c EXCEPT !.h.cert = TRUE, !.h.nginx = "ssl", !.ssl = TRUE]
                ELSE [c EXCEPT !.exc = TRUE]
      [] OTHER -> prune_releases(c, lv, in)

(* One stage of deploy_site on the context c = (host, session's            *)
(* domain.ssl_provisioned, exception raised, history of this deploy).      *)
DeployStage(n, c, lv, in) ==
    CASE n = 1 ->
           IF in.fail = 1 THEN [c EXCEPT !.exc = TRUE]
           ELSE [c EXCEPT !.h.rel[lv] = IF @ = "absent" THEN "empty" ELSE @]
      [] n = 2 ->
           IF in.fail = 2
           THEN [c EXCEPT !.h.rel[lv] = IF in.walk /\ in.part THEN "files" ELSE @,
                          !.exc = TRUE]
           ELSE [c EXCEPT !.h.rel[lv] = IF in.walk THEN "files" ELSE @]
      [] n = 3 -> VerifyRelease(c, lv, in)
      [] n = 4 ->
           IF in.fail = 4 THEN [c EXCEPT !.exc = TRUE]
           ELSE [c EXCEPT !.h.current = lv, !.flipped = TRUE]
      [] n = 5 ->
           IF in.fail = 5 THEN [c EXCEPT !.exc = TRUE]
           ELSE [c EXCEPT !.h.nginx = generate_nginx_config(c.ssl),
                          !.installed = generate_nginx_config(c.ssl)]
      [] n = 6 ->
           IF in.fail = 6 THEN [c EXCEPT !.exc = TRUE] ELSE c
      [] n = 7 ->
           IF ~c.ssl /\ in.certOk
           THEN [c EXCEPT !.h.cert = TRUE, !.h.nginx = "ssl", !.ssl = TRUE]
           ELSE c
      [] OTHER -> prune_releases(c, lv, in)

LastStage == 8

RECURSIVE RunStages(_, _, _, _, _)
RunStages(c, from, to, lv, in) ==
    IF c.exc \/ from > to THEN c
    ELSE RunStages(DeployStage(from, c, lv, in), from + 1, to, lv, in)

DeployContext(h, ssl) ==
    [h |-> h, ssl |-> ssl, exc |-> FALSE, flipped |-> FALSE,
     emptyAbort |-> FALSE, installed |-> "none"]

(* A deploy that names the release after the version counter. *)
LocalVersion_FromCounter(s) == s.current_version

(* deployer.py deploy_site: os.path.basename(site.output_path) *)
LocalVersion(s) == s.output_path

(* A deploy that connects and makes the release directory before it tests *)
(* its arguments.                                                          *)
deploy_site_LateTest(s, dm, h, in) ==
    IF ~s.domain \/ s.output_path = 0
    THEN [s |-> s, dm |-> dm,
          c |-> [DeployContext([h EXCEPT !.rel[s.current_version] = "empty"],
                               dm.ssl_provisioned) EXCEPT !.exc = TRUE],
          lv |-> 0]
    ELSE [s |-> [s EXCEPT !.status = "deployed", !.deployed_at = TRUE],
          dm |-> [dm EXCEPT !.status = "deployed"],
          c |-> DeployContext(h, dm.ssl_provisioned), lv |-> s.output_path]

(* deployer.py deploy_site on the caller's session copies s and dm. *)
deploy_site(s, dm, h, in) ==
    IF ~s.domain \/ s.output_path = 0
    THEN [s |-> s, dm |-> dm, c |-> [DeployContext(h, dm.ssl_provisioned)
                                        EXCEPT !.exc = TRUE], lv |-> 0]
    ELSE LET local_version == LocalVersion(s)
             c == RunStages(DeployContext(h, dm.ssl_provisioned), 1, LastStage,
                            local_version, in)
         IN  IF c.exc
             THEN [s |-> s, dm |-> [dm EXCEPT !.ssl_provisioned = c.ssl],
                   c |-> c, lv |-> local_version]
             ELSE [s |-> [s EXCEPT !.status = "deployed", !.deployed_at = TRUE],
                   dm |-> [dm EXCEPT !.ssl_provisioned = c.ssl,
                                     !.status = "deployed"],
                   c |-> c, lv |-> local_version]

(* routes/sites.py deploy: the two preconditions. *)
DeployAccepted(s) == s.domain /\ s.status \in {"built", "deployed"}

(* A handler without the except branch. *)
DeployRoute_NoExcept(s, dm, h, in) ==
    LET s1 == [s EXCEPT !.status = "deploying"]
        r == deploy_site(s1, dm, h, in)
    IN  [s |-> r.s, dm |-> r.dm, c |-> r.c, lv |-> r.lv]

(* routes/sites.py deploy: the try/except around deploy_site; an exception *)
(* rolls the session back, so only the failed status is committed.         *)
DeployRoute(s, dm, h, in) ==
    LET s1 == [s EXCEPT !.status = "deploying"]
        r == deploy_site(s1, dm, h, in)
    IN  IF r.c.exc
        THEN [s |-> [s1 EXCEPT !.status = "failed"], dm |-> dm, c |-> r.c,
              lv |-> r.lv]
        ELSE [s |-> r.s, dm |-> r.dm, c |-> r.c, lv |-> r.lv]

(***************************************************************************)
(* Rollback Controller (deployer.py rollback_site).  target = 0 stands for *)
(* target_version=None; fail = 1: ln -sfn raises, fail = 2: the reload     *)
(* raises after the symlink was repointed.                                 *)
(***************************************************************************)
(* A rollback that repoints current without looking at the target. *)
rollback_site_NoFloor(s, h, target, fail) ==
    LET target_version == IF target = 0 THEN s.current_version - 1 ELSE target
    IN  IF ~s.domain
        THEN [h |-> h, res |-> "rejected", target |-> target_version]
        ELSE [h |-> [h EXCEPT !.current = target_version],
              res |-> IF fail = 2 THEN "failed" ELSE "ok",
              target |-> target_version]

rollback_site(s, h, target, fail) ==
    LET target_version == IF target = 0 THEN s.current_version - 1 ELSE target
    IN  IF ~s.domain \/ target_version < 1
        THEN [h |-> h, res |-> "rejected", target |-> target_version]
        ELSE IF fail = 1
        THEN [h |-> h, res |-> "failed", target |-> target_version]
        ELSE [h |-> [h EXCEPT !.current = target_version],
              res |-> IF fail = 2 THEN "failed" ELSE "ok",
              target |-> target_version]

(***************************************************************************)
(* Tips pipeline, step 3 (tips_pipeline.py fetch_and_generate_tips): the   *)
(* rebuild after new tips pages were created, and the auto-deploy.  An     *)
(* exception is logged; nothing is rolled back and no status is written.   *)
(* build_site has just set the status to built when the auto-deploy test   *)
(* reads it, so the remote commands of that branch get no failure inputs.  *)
(***************************************************************************)
TipsRebuild(s, dm, h, d, renderOk) ==
    LET r == build_site(s, "app_output", d, renderOk)
        s2 == [r.s EXCEPT !.current_version = @ + 1]
    IN  IF r.exc
        THEN [s |-> s, dm |-> dm, h |-> h, d |-> r.d, exc |-> TRUE, dir |-> r.dir]
        ELSE IF s2.status = "deployed" /\ s2.domain
        THEN LET q == deploy_site(s2, dm, h, NoFailure)
             IN  [s |-> q.s, dm |-> q.dm, h |-> q.c.h, d |-> r.d,
                  exc |-> FALSE, dir |-> r.dir]
        ELSE [s |-> s2, dm |-> dm, h |-> h, d |-> r.d, exc |-> FALSE,
              dir |-> r.dir]

(***************************************************************************)
(* History bookkeeping of the build-and-deploy cycles run through the      *)
(* admin handlers: n counts the steps build, deploy, build, deploy, and    *)
(* prevServed is the release served before the latest deploy.              *)
(***************************************************************************)
(***************************************************************************)
(* Rows of site_pages and content_history (models.py SitePage,             *)
(* ContentHistory).  type, brand and topic are small numbers, 0 standing   *)
(* for NULL; content 0 is NULL, content k > 0 is the k-th content the      *)
(* generator returned for the page, Edited is JSON typed into the editor.  *)
(***************************************************************************)
PageIds == 1..MaxPages

NoPage ==
    [site |-> 0, type |-> 0, brand |-> 0, topic |-> 0, content |-> 0,
     is_generated |-> FALSE, parent |-> 0]

Edited == 0 - 1

NoJob == [pc |-> "idle", todo |-> {}, results |-> {}, failed |-> FALSE]

NoProbe == <<>>

(***************************************************************************)
(* Operations, each a whole handler.                                       *)
(***************************************************************************)
InitRows ==
    /\ site = NewSite(0)
    /\ domain = NewDomain
    /\ host = EmptyHost
    /\ disk = {}
    /\ nextSiteId = 1
    /\ genJob = 0
    /\ dep = [t \in DeployThreads |-> Idle]
    /\ bld = [t \in BuildThreads |-> NoBuild]
    /\ tip = NoBuild
    /\ last = L0
    /\ cycle = C0
    /\ hist = [p \in PageIds |-> <<>>]
    /\ gens = [p \in PageIds |-> 0]
    /\ job = NoJob
    /\ did = [op |-> "none", page |-> 0, arg |-> 0, res |-> "ok"]

Init ==
    /\ InitRows
    /\ pages = [p \in PageIds |-> NoPage]
    /\ probe = NoProbe

(* routes/sites.py create *)
CreateSite ==
    /\ site.id = 0
    /\ nextSiteId <= MaxSites
    /\ site' = NewSite(nextSiteId)
    /\ nextSiteId' = nextSiteId + 1
    /\ last' = [L0 EXCEPT !.op = "create"]
    /\ cycle' = C0
    /\ UNCHANGED <<domain, host, disk, genJob, dep, bld, tip>>
    /\ UNCHANGED pageVars

(* routes/sites.py delete_site *)
DeleteSite ==
    /\ site.id # 0
    /\ \A t \in DeployThreads : dep[t] = Idle
    /\ \A t \in BuildThreads : bld[t] = NoBuild
    /\ tip = NoBuild
    /\ domain' = IF site.domain THEN [domain EXCEPT !.status = "available"]
                 ELSE domain
    /\ site' = NewSite(0)
    /\ last' = [L0 EXCEPT !.op = "delete"]
    /\ cycle' = C0
    /\ UNCHANGED <<host, disk, nextSiteId, genJob, dep, bld, tip>>
    /\ UNCHANGED pageVars

(* routes/sites.py generate *)
GenerateStart ==
    /\ site.id # 0
    /\ genJob = 0
    /\ IF site.status = "generating"
       THEN UNCHANGED <<site, genJob, last>>
       ELSE /\ site' = [site EXCEPT !.status = "generating"]
            /\ genJob' = site.id
            /\ last' = [L0 EXCEPT !.op = "generate"]
    /\ UNCHANGED <<domain, host, disk, nextSiteId, dep, bld, tip, cycle>>
    /\ UNCHANGED pageVars

(* content_generator.py generate_site_content_background: the end of the   *)
(* job, which writes generated or failed; a job whose site is gone stops.  *)
GenerateEnds(oks) ==
    /\ genJob # 0
    /\ genJob' = 0
    /\ \E ok \in oks :
         /\ site' = IF genJob = site.id
                    THEN [site EXCEPT !.status = IF ok THEN "generated"
                                                 ELSE "failed"]
                    ELSE site
         /\ last' = [L0 EXCEPT !.op = "generated",
                               !.res = IF ok THEN "ok" ELSE "failed"]
    /\ UNCHANGED <<domain, host, disk, nextSiteId, dep, bld, tip, cycle>>
    /\ UNCHANGED pageVars

GenerateFinish == GenerateEnds(BOOLEAN)

(* routes/sites.py assign_domain *)
AssignDomain ==
    /\ site.id # 0
    /\ IF domain.status # "available"
       THEN UNCHANGED <<site, domain, last>>
       ELSE /\ site' = [site EXCEPT !.domain = TRUE]
            /\ domain' = [domain EXCEPT !.status = "assigned"]
            /\ last' = [L0 EXCEPT !.op = "assign"]
    /\ UNCHANGED <<host, disk, nextSiteId, genJob, dep, bld, tip, cycle>>
    /\ UNCHANGED pageVars

(* routes/sites.py build; a request the handler refuses changes nothing. *)
Builds(oks, cap) ==
    /\ site.id # 0
    /\ Cardinality(disk) < cap /\ site.current_version <= cap
    /\ IF ~BuildAccepted(site)
       THEN UNCHANGED <<site, disk, cycle, last>>
       ELSE \E renderOk \in oks :
              LET r == BuildRoute(site, disk, renderOk)
              IN  /\ site' = r.s
                  /\ disk' = r.d
                  /\ last' = [L0 EXCEPT !.op = "build", !.dir = r.dir,
                                        !.res = IF r.exc THEN "failed" ELSE "ok"]
                  /\ cycle' = IF r.exc THEN C0
                              ELSE IF cycle.n = 2 THEN [cycle EXCEPT !.n = 3]
                              ELSE [n |-> 1, prevServed |-> 0]
    /\ UNCHANGED <<domain, host, nextSiteId, genJob, dep, bld, tip>>
    /\ UNCHANGED pageVars

Build == Builds(BOOLEAN, MaxBuilds)

(* tips_pipeline.py fetch_and_generate_tips, step 3 *)
TipsBuilds(oks, cap) ==
    /\ site.id # 0
    /\ Cardinality(disk) < cap /\ site.current_version <= cap
    /\ \E renderOk \in oks :
         LET r == TipsRebuild(site, domain, host, disk, renderOk)
         IN  /\ site' = r.s
             /\ domain' = r.dm
             /\ host' = r.h
             /\ disk' = r.d
             /\ last' = [L0 EXCEPT !.op = "tips", !.dir = r.dir,
                                   !.res = IF r.exc THEN "failed" ELSE "ok"]
    /\ cycle' = C0
    /\ UNCHANGED <<nextSiteId, genJob, dep, bld, tip>>
    /\ UNCHANGED pageVars

TipsBuild == TipsBuilds(BOOLEAN, MaxBuilds)

(* routes/sites.py deploy; a request the handler refuses changes nothing. *)
Deploy ==
    /\ site.id # 0
    /\ IF ~DeployAccepted(site)
       THEN UNCHANGED <<site, domain, host, cycle, last>>
       ELSE \E in \in Inputs :
              LET r == DeployRoute(site, domain, host, in)
              IN  /\ site' = r.s
                  /\ domain' = r.dm
                  /\ host' = r.c.h
                  /\ last' = [L0 EXCEPT !.op = "deploy",
                                        !.res = IF r.c.exc THEN "failed" ELSE "ok",
                                        !.flipped = r.c.flipped,
                                        !.emptyAbort = r.c.emptyAbort,
                                        !.installed = r.c.installed]
                  /\ cycle' = IF r.c.exc THEN C0
                              ELSE IF cycle.n \in {1, 3}
                              THEN [n |-> cycle.n + 1,
                                    prevServed |-> host.current]
                              ELSE C0
    /\ UNCHANGED <<disk, nextSiteId, genJob, dep, bld, tip>>
    /\ UNCHANGED pageVars

(* routes/sites.py rollback: rollback_site without a target version; a     *)
(* ValueError is flashed, any other exception rolls the session back.      *)
Rollback ==
    /\ site.id # 0
    /\ IF ~site.domain
       THEN UNCHANGED <<host, cycle, last>>
       ELSE \E fail \in 0..2 :
              LET r == rollback_site(site, host, 0, fail)
              IN  /\ host' = r.h
                  /\ last' = IF r.res = "rejected" THEN last
                              ELSE [L0 EXCEPT !.op = "rollback", !.res = r.res]
                  /\ cycle' = IF r.res = "rejected" THEN cycle ELSE C0
    /\ UNCHANGED <<site, domain, disk, nextSiteId, genJob, dep, bld, tip>>
    /\ UNCHANGED pageVars

Next ==
    \/ CreateSite
    \/ DeleteSite
    \/ GenerateStart
    \/ GenerateFinish
    \/ AssignDomain
    \/ Build
    \/ TipsBuild
    \/ Deploy
    \/ Rollback

Spec == Init /\ [][Next]_vars

(***************************************************************************)
(* Deploy requests served by concurrent workers.  Each request keeps its   *)
(* own session: the release name and domain.ssl_provisioned are read when  *)
(* deploy_site starts, the remote commands then run in three blocks, and   *)
(* the commit at the end writes the attributes the request assigned.       *)
(***************************************************************************)
DeployBegin(t) ==
    /\ site.id # 0
    /\ dep[t] = Idle
    /\ \A u \in DeployThreads : u < t => dep[u] # Idle
    /\ DeployAccepted(site)
    /\ site' = [site EXCEPT !.status = "deploying"]
    /\ dep' = [dep EXCEPT ![t] = [pc |-> "upload", lv |-> LocalVersion(site),
                                  ssl |-> domain.ssl_provisioned]]
    /\ last' = [L0 EXCEPT !.op = "deploy_begin"]
    /\ cycle' = C0
    /\ UNCHANGED <<domain, host, disk, nextSiteId, genJob, bld, tip>>
    /\ UNCHANGED pageVars

(* Stages from..to of request t; an exception takes the handler's except   *)
(* branch, which commits the failed status.                                *)
DeployBlock(t, pc, from, to, next, ins) ==
    /\ dep[t].pc = pc
    /\ \E in \in ins :
         LET c == RunStages(DeployContext(host, dep[t].ssl), from, to,
                            dep[t].lv, in)
             done == ~c.exc /\ to = LastStage
         IN  /\ host' = c.h
             /\ dep' = [dep EXCEPT ![t] = IF c.exc \/ done THEN Idle
                                          ELSE [@ EXCEPT !.pc = next,
                                                         !.ssl = c.ssl]]
             /\ site' = IF c.exc THEN [site EXCEPT !.status = "failed"]
                        ELSE IF done
                        THEN [site EXCEPT !.status = "deployed",
                                          !.deployed_at = TRUE]
                        ELSE site
             /\ domain' = IF done
                          THEN [domain EXCEPT
                                  !.status = "deployed",
                                  !.ssl_provisioned = @ \/ c.ssl]
                          ELSE domain
             /\ last' = [L0 EXCEPT !.op = "deploy_" \o pc,
                                   !.res = IF c.exc THEN "failed" ELSE "ok",
                                   !.flipped = c.flipped]
    /\ cycle' = C0
    /\ UNCHANGED <<disk, nextSiteId, genJob, bld, tip>>
    /\ UNCHANGED pageVars

DeployUpload(t) == DeployBlock(t, "upload", 1, 4, "configure", {NoFailure})

DeployConfigure(t) == DeployBlock(t, "configure", 5, 7, "prune", {NoFailure})

DeployPrune(t) == DeployBlock(t, "prune", 8, LastStage, "idle", {NoFailure})

NextDeploys ==
    \/ CreateSite
    \/ GenerateStart
    \/ GenerateEnds({TRUE})
    \/ AssignDomain
    \/ Builds({TRUE}, ConcBuilds)
    \/ Rollback
    \/ \E t \in DeployThreads : DeployBegin(t)
    \/ \E t \in DeployThreads : DeployUpload(t)
    \/ \E t \in DeployThreads : DeployConfigure(t)
    \/ \E t \in DeployThreads : DeployPrune(t)

SpecDeploys == Init /\ [][NextDeploys]_vars

(***************************************************************************)
(* Renders started by concurrent workers: admin build requests and the     *)
(* tips pipeline.  A request reads the status, commits building, reads the *)
(* version counter when build_site starts, and at the end commits the      *)
(* attributes it assigned, the counter as the value it read plus one.      *)
(***************************************************************************)
BuildCheck(t) ==
    /\ site.id # 0
    /\ bld[t] = NoBuild
    /\ BuildAccepted(site)
    /\ bld' = [bld EXCEPT ![t] = [pc |-> "checked", ver |-> 0]]
    /\ last' = [L0 EXCEPT !.op = "build_check"]
    /\ UNCHANGED <<site, domain, host, disk, nextSiteId, genJob, dep, tip, cycle>>
    /\ UNCHANGED pageVars

BuildBegin(t) ==
    /\ bld[t].pc = "checked"
    /\ Cardinality(disk) < MaxBuilds /\ site.current_version <= MaxBuilds
    /\ site' = [site EXCEPT !.status = "building"]
    /\ bld' = [bld EXCEPT ![t] = [pc |-> "rendering",
                                  ver |-> site.current_version]]
    /\ last' = [L0 EXCEPT !.op = "build_begin"]
    /\ UNCHANGED <<domain, host, disk, nextSiteId, genJob, dep, tip, cycle>>
    /\ UNCHANGED pageVars

BuildFinish(t) ==
    /\ bld[t].pc = "rendering"
    /\ \E renderOk \in BOOLEAN :
         LET r == build_site([site EXCEPT !.current_version = bld[t].ver],
                             "output", disk, renderOk)
         IN  /\ site' = IF r.exc THEN [site EXCEPT !.status = "failed"]
                        ELSE [r.s EXCEPT !.current_version = @ + 1]
             /\ disk' = r.d
             /\ last' = [L0 EXCEPT !.op = "build", !.dir = r.dir,
                                   !.res = IF r.exc THEN "failed" ELSE "ok"]
    /\ bld' = [bld EXCEPT ![t] = NoBuild]
    /\ UNCHANGED <<domain, host, nextSiteId, genJob, dep, tip, cycle>>
    /\ UNCHANGED pageVars

TipsBegin ==
    /\ site.id # 0
    /\ tip = NoBuild
    /\ Cardinality(disk) < MaxBuilds /\ site.current_version <= MaxBuilds
    /\ tip' = [pc |-> "rendering", ver |-> site.current_version]
    /\ last' = [L0 EXCEPT !.op = "tips_begin"]
    /\ UNCHANGED <<site, domain, host, disk, nextSiteId, genJob, dep, bld, cycle>>
    /\ UNCHANGED pageVars

TipsFinish ==
    /\ tip.pc = "rendering"
    /\ \E renderOk \in BOOLEAN :
         LET r == build_site([site EXCEPT !.current_version = tip.ver],
                             "app_output", disk, renderOk)
         IN  /\ site' = IF r.exc THEN site
                        ELSE [r.s EXCEPT !.current_version = @ + 1]
             /\ disk' = r.d
             /\ last' = [L0 EXCEPT !.op = "tips", !.dir = r.dir,
                                   !.res = IF r.exc THEN "failed" ELSE "ok"]
    /\ tip' = NoBuild
    /\ UNCHANGED <<domain, host, nextSiteId, genJob, dep, bld, cycle>>
    /\ UNCHANGED pageVars

NextBuilds ==
    \/ CreateSite
    \/ GenerateStart
    \/ GenerateFinish
    \/ \E t \in BuildThreads : BuildCheck(t)
    \/ \E t \in BuildThreads : BuildBegin(t)
    \/ \E t \in BuildThreads : BuildFinish(t)
    \/ TipsBegin
    \/ TipsFinish

SpecBuilds == Init /\ [][NextBuilds]_vars

(* Renders in progress: the worker and the directory it writes. *)
RendersInProgress ==
    {<<t, Dir("output", site.id, bld[t].ver)>> :
        t \in {u \in BuildThreads : bld[u].pc = "rendering"}}
    \cup (IF tip.pc = "rendering"
          THEN {<<0, Dir("app_output", site.id, tip.ver)>>} ELSE {})

(***************************************************************************)
(* Properties.                                                             *)
(***************************************************************************)

(* C1: pruning never removes the release the current symlink points at:    *)
(* in no step does a release directory disappear from the host while       *)
(* current points at it, whatever runs between a deploy's symlink flip and *)
(* its prune.                                                              *)
C1_PruneKeepsCurrent ==
    [][\A v \in Versions :
          (host.rel[v] # "absent" /\ host'.rel[v] = "absent")
              => host.current # v]_vars

C3_RollbackTargetExists ==
    (last.op = "rollback" /\ last.res = "ok")
        => host.rel[host.current] # "absent"

(* C4: after two successive build-and-deploy cycles through the admin      *)
(* handlers, a default rollback leaves current on the release served       *)
(* before the latest deploy, a release other than the one served just      *)
(* before the rollback.                                                    *)
C4_RollbackToPrevious ==
    [][(cycle.n = 4 /\ last'.op = "rollback" /\ last'.res = "ok")
          => /\ host'.current = cycle.prevServed
             /\ host'.current # host.current]_vars

(* C5: currentVersion is 1 for a new site, and each step of a site adds    *)
(* exactly 1 to it when the step is a successful render and leaves it      *)
(* unchanged otherwise (failed build, deploy, rollback, generation).       *)
C5_VersionCounter ==
    [][/\ (site'.id # 0 /\ site'.id # site.id) => site'.current_version = 1
       /\ (site.id # 0 /\ site'.id = site.id) =>
             site'.current_version =
                 site.current_version
                 + (IF last'.op \in {"build", "tips"} /\ last'.res = "ok"
                    THEN 1 ELSE 0)]_vars

(* Two successful renders of one site, the counter at 3. *)
C5_Witness ==
    /\ last.op \in {"build", "tips"}
    /\ last.res = "ok"
    /\ site.current_version = 3

C7_ReleaseFromOutputPath ==
    (last.op = "deploy" /\ last.flipped)
        => /\ host.current = site.output_path
           /\ host.rel[site.output_path] = "files"
           /\ site.current_version = site.output_path + 1

(* A successful deploy of v2 with the counter at 3. *)
C7_Witness ==
    /\ last.op = "deploy"
    /\ last.res = "ok"
    /\ host.current = 2
    /\ site.current_version = 3

(* C8: builds of one site are serialized: at most one render is in         *)
(* progress at a time and no two renders write into the same directory.    *)
C8_BuildsSerialized ==
    /\ Cardinality({r[1] : r \in RendersInProgress}) <= 1
    /\ \A a, b \in RendersInProgress : a[1] # b[1] => a[2] # b[2]

(* C9: once a certificate exists on the host, every virtual-host           *)
(* configuration a deploy installs has the TLS directives.                 *)
C9_NoTlsDowngrade ==
    [][(host.cert /\ last'.op = "deploy" /\ last'.installed # "none")
          => last'.installed = "ssl"]_vars

(* C10: after a failed deploy, a following deploy request is accepted as   *)
(* the site stands, without generating or building again.                  *)
C10_RedeployAfterFailure ==
    (last.op = "deploy" /\ last.res = "failed") => DeployAccepted(site)

(***************************************************************************)
(* Process restart (app/__init__.py create_app).  The process dies with    *)
(* its request workers and background threads; the committed rows, the     *)
(* local output and the host stay; create_app then runs                    *)
(* _reset_stuck_generating on the sites table.                             *)
(***************************************************************************)
Restart ==
    /\ site.id # 0
    /\ site' = IF site.status = "generating"
               THEN [site EXCEPT !.status = "failed"] ELSE site
    /\ genJob' = 0
    /\ dep' = [t \in DeployThreads |-> Idle]
    /\ bld' = [t \in BuildThreads |-> NoBuild]
    /\ tip' = NoBuild
    /\ job' = NoJob
    /\ last' = [L0 EXCEPT !.op = "restart"]
    /\ cycle' = C0
    /\ UNCHANGED <<domain, host, disk, nextSiteId, pages, hist, gens, did, probe>>

NextRestart ==
    \/ CreateSite
    \/ GenerateStart
    \/ GenerateFinish
    \/ AssignDomain
    \/ \E t \in BuildThreads : BuildCheck(t)
    \/ \E t \in BuildThreads : BuildBegin(t)
    \/ \E t \in BuildThreads : BuildFinish(t)
    \/ \E t \in DeployThreads : DeployBegin(t)
    \/ \E t \in DeployThreads : DeployUpload(t)
    \/ \E t \in DeployThreads : DeployConfigure(t)
    \/ \E t \in DeployThreads : DeployPrune(t)
    \/ Restart

SpecRestart == Init /\ [][NextRestart]_vars

(* C11: once startup has completed after a restart, the site is in none of *)
(* the in-progress statuses generating, building, deploying.               *)
C11_NoInProgressAfterRestart ==
    last.op = "restart"
        => site.status \notin {"generating", "building", "deploying"}

(***************************************************************************)
(* Pages of a site.  The three partial unique indexes of site_pages        *)
(* (models.py SitePage.__table_args__): an INSERT that collides with a     *)
(* row of the same site raises IntegrityError.                             *)
(***************************************************************************)
Brands == 1..2
Topics == 1..2

NewPage(siteId, type, brand, topic) ==
    [NoPage EXCEPT !.site = siteId, !.type = type, !.brand = brand,
                   !.topic = topic]

(* An index set without the uniqueness of the three indexes. *)
UniqueViolation_NoIndex(ps, new) == FALSE

UniqueViolation(ps, new) ==
    \E q \in PageIds :
        /\ ps[q].site = new.site
        /\ ps[q].type = new.type
        /\ \/ new.brand = 0 /\ new.topic = 0 /\ ps[q].brand = 0 /\ ps[q].topic = 0
           \/ new.brand # 0 /\ ps[q].brand = new.brand
           \/ new.topic # 0 /\ ps[q].topic = new.topic

FreeIds(ps) == {p \in PageIds : ps[p].site = 0}

(* session.add + flush of one row: the row gets the next id. *)
InsertPage(ps, new) ==
    IF UniqueViolation(ps, new) THEN [ps |-> ps, exc |-> TRUE, id |-> 0]
    ELSE LET id == CHOOSE p \in FreeIds(ps) : \A q \in FreeIds(ps) : p <= q
         IN  [ps |-> [ps EXCEPT ![id] = new], exc |-> FALSE, id |-> id]

(* routes/sites.py add_page: the row the form describes, or NoPage when    *)
(* one of the handler's own tests turns the request down.                  *)
add_page_row(ps, siteId, type, brand, topic) ==
    IF type \in {"homepage", "comparison"}
    THEN IF \E q \in PageIds : /\ ps[q].site = siteId /\ ps[q].type = type
                               /\ ps[q].brand = 0 /\ ps[q].topic = 0
         THEN NoPage ELSE NewPage(siteId, type, 0, 0)
    ELSE IF type \in {"brand-review", "bonus-review"}
    THEN IF brand = 0
            \/ \E q \in PageIds : /\ ps[q].site = siteId /\ ps[q].type = type
                                  /\ ps[q].brand = brand
         THEN NoPage ELSE NewPage(siteId, type, brand, 0)
    ELSE IF type = "evergreen"
    THEN IF topic = 0
            \/ \E q \in PageIds : /\ ps[q].site = siteId /\ ps[q].type = type
                                  /\ ps[q].topic = topic
         THEN NoPage ELSE NewPage(siteId, type, 0, topic)
    ELSE NoPage

(* routes/sites.py add_page, POST *)
AddPages(types, brands, topics) ==
    /\ site.id # 0
    /\ FreeIds(pages) # {}
    /\ \E type \in types, brand \in brands, topic \in topics :
         LET row == add_page_row(pages, site.id, type, brand, topic)
             r == IF row.site = 0 THEN [ps |-> pages, exc |-> TRUE, id |-> 0]
                  ELSE InsertPage(pages, row)
         IN  /\ pages' = r.ps
             /\ did' = [op |-> "add_page", page |-> r.id,
                        arg |-> <<type, brand, topic>>,
                        res |-> IF row.site = 0 THEN "refused"
                                ELSE IF r.exc THEN "failed" ELSE "ok"]
    /\ UNCHANGED <<site, domain, host, disk, nextSiteId, genJob, dep, bld, tip,
                   last, cycle, hist, gens, job, probe>>

AddPage ==
    AddPages({"homepage", "comparison", "brand-review", "bonus-review",
              "evergreen", "tips-article"},
             {0} \cup Brands, {0} \cup Topics)

(* The add-page form filled in for an evergreen page. *)
AddEvergreen == AddPages({"evergreen"}, {0}, {0} \cup Topics)

(* The same form with no topic or with the first one. *)
AddOneEvergreen == AddPages({"evergreen"}, {0}, {0, 1})

(* The chosen brands in the order of their ids. *)
RECURSIVE BrandRows(_, _)
BrandRows(siteId, B) ==
    IF B = {} THEN <<>>
    ELSE LET b == CHOOSE x \in B : \A y \in B : x <= y
         IN  <<NewPage(siteId, "brand-review", b, 0)>>
                 \o BrandRows(siteId, B \ {b})

(* routes/sites.py _create_site_pages: the rows in the order they are      *)
(* added to the session.                                                   *)
create_site_pages(siteId, form) ==
    (IF "homepage" \in form.page_types
     THEN <<NewPage(siteId, "homepage", 0, 0)>> ELSE <<>>)
    \o (IF "comparison" \in form.page_types
        THEN <<NewPage(siteId, "comparison", 0, 0)>> ELSE <<>>)
    \o (IF "brand-review" \in form.page_types
        THEN BrandRows(siteId, form.brand_ids) ELSE <<>>)
    \o [i \in 1..Len(form.evergreen_topics) |->
           NewPage(siteId, "evergreen", 0, form.evergreen_topics[i])]

(* The commit of the rows of one session: all of them, or an              *)
(* IntegrityError and none.                                                *)
RECURSIVE InsertAll(_, _)
InsertAll(ps, rows) ==
    IF rows = <<>> THEN [ps |-> ps, exc |-> FALSE]
    ELSE LET r == InsertPage(ps, Head(rows))
         IN  IF r.exc THEN [ps |-> ps, exc |-> TRUE]
             ELSE LET rest == InsertAll(r.ps, Tail(rows))
                  IN  IF rest.exc THEN [ps |-> ps, exc |-> TRUE] ELSE rest

(* routes/sites.py create with _create_site_pages: the site row and its    *)
(* page rows are committed together; the handler catches nothing, so an    *)
(* IntegrityError leaves neither the site nor any page.                    *)
CreateWithPages ==
    /\ site.id = 0
    /\ nextSiteId <= MaxSites
    /\ \E form \in
           [page_types : SUBSET {"homepage", "comparison", "brand-review"},
            brand_ids : SUBSET Brands,
            evergreen_topics :
                {<<>>} \cup {<<a>> : a \in Topics}
                    \cup {<<a, b>> : a, b \in Topics}] :
         LET rows == create_site_pages(nextSiteId, form)
             r == InsertAll(pages, rows)
         IN  /\ Len(rows) <= Cardinality(FreeIds(pages))
             /\ pages' = r.ps
             /\ site' = IF r.exc THEN site ELSE NewSite(nextSiteId)
             /\ nextSiteId' = IF r.exc THEN nextSiteId ELSE nextSiteId + 1
             /\ last' = IF r.exc THEN last ELSE [L0 EXCEPT !.op = "create"]
             /\ cycle' = IF r.exc THEN cycle ELSE C0
             /\ did' = [op |-> "create", page |-> 0, arg |-> form,
                        res |-> IF r.exc THEN "failed" ELSE "ok"]
    /\ UNCHANGED <<domain, host, disk, genJob, dep, bld, tip, hist, gens, job,
                   probe>>

(* tips_pipeline.py fetch_and_generate_tips, step 2 for one fixture: the   *)
(* data package, the prompt and the API call come before the page row; if  *)
(* one of them raises, or the flush of the row does, the fixture is rolled *)
(* back and the loop goes on.  The row has the match title as its topic    *)
(* and is saved with its content in the same commit.                       *)
TipsCreatePage ==
    /\ site.id # 0
    /\ FreeIds(pages) # {}
    /\ \E title \in Topics, fetched \in BOOLEAN :
         LET r == IF ~fetched THEN [ps |-> pages, exc |-> TRUE, id |-> 0]
                  ELSE InsertPage(pages, NewPage(site.id, "tips-article", 0, title))
         IN  /\ pages' = IF r.exc THEN pages
                         ELSE [r.ps EXCEPT ![r.id].content = Edited,
                                           ![r.id].is_generated = TRUE]
             /\ did' = [op |-> "tips", page |-> r.id, arg |-> title,
                        res |-> IF r.exc THEN "failed" ELSE "ok"]
    /\ UNCHANGED <<site, domain, host, disk, nextSiteId, genJob, dep, bld, tip,
                   last, cycle, hist, gens, job, probe>>

(***************************************************************************)
(* Generated content and its history.                                      *)
(***************************************************************************)
MaxVersion(h) ==
    IF h = <<>> THEN 0
    ELSE LET vs == {h[i].version : i \in 1..Len(h)}
         IN  CHOOSE v \in vs : \A w \in vs : w <= v

(* The history row both writers build: the live content under the next     *)
(* version (content_generator.py:233-248, routes/sites.py:368-383).        *)
Archive(pg, h) ==
    IF pg.content # 0 /\ pg.is_generated
    THEN Append(h, [version |-> MaxVersion(h) + 1, content |-> pg.content])
    ELSE h

(* A writer that overwrites without archiving. *)
save_content_to_page_NoHistory(pg, h, content) ==
    [pg |-> [pg EXCEPT !.content = content, !.is_generated = TRUE], h |-> h]

(* content_generator.py save_content_to_page *)
save_content_to_page(pg, h, content) ==
    [pg |-> [pg EXCEPT !.content = content, !.is_generated = TRUE],
     h |-> Archive(pg, h)]

SitePages(ps, siteId) == {p \in PageIds : siteId # 0 /\ ps[p].site = siteId}

(* routes/sites.py regenerate_page: synchronous; an exception of the       *)
(* prompt or of the API call rolls back, nothing is written.               *)
RegeneratePage ==
    \E p \in SitePages(pages, site.id), ok \in BOOLEAN :
        /\ gens[p] < MaxGens
        /\ IF ok
           THEN LET r == save_content_to_page(pages[p], hist[p], gens[p] + 1)
                IN  /\ pages' = [pages EXCEPT ![p] = r.pg]
                    /\ hist' = [hist EXCEPT ![p] = r.h]
                    /\ gens' = [gens EXCEPT ![p] = @ + 1]
           ELSE UNCHANGED <<pages, hist, gens>>
        /\ did' = [op |-> "regenerate", page |-> p, arg |-> 0,
                   res |-> IF ok THEN "ok" ELSE "failed"]
        /\ UNCHANGED <<site, domain, host, disk, nextSiteId, genJob, dep, bld,
                       tip, last, cycle, job, probe>>

(* A restore that drops the content it replaces. *)
restore_content_NoArchive(pg, h, i) ==
    [pg |-> [pg EXCEPT !.content = h[i].content], h |-> h]

(* routes/sites.py restore_content, for the history row at position i *)
restore_content(pg, h, i) ==
    [pg |-> [pg EXCEPT !.content = h[i].content], h |-> Archive(pg, h)]

RestoreContent ==
    \E p \in SitePages(pages, site.id) :
        \E i \in 1..Len(hist[p]) :
            /\ Len(hist[p]) < MaxHistory
            /\ LET r == restore_content(pages[p], hist[p], i)
               IN  /\ pages' = [pages EXCEPT ![p] = r.pg]
                   /\ hist' = [hist EXCEPT ![p] = r.h]
            /\ did' = [op |-> "restore", page |-> p, arg |-> i, res |-> "ok"]
            /\ UNCHANGED <<site, domain, host, disk, nextSiteId, genJob, dep,
                           bld, tip, last, cycle, gens, job, probe>>

(* routes/sites.py edit_page, POST: the content_json field of the form is  *)
(* empty, not JSON, or JSON; only the last is stored.                      *)
edit_page(pg, raw) ==
    IF raw = "json" THEN [pg EXCEPT !.content = Edited] ELSE pg

EditPage ==
    \E p \in SitePages(pages, site.id), raw \in {"empty", "invalid", "json"} :
        /\ pages' = [pages EXCEPT ![p] = edit_page(@, raw)]
        /\ did' = [op |-> "edit", page |-> p, arg |-> raw, res |-> "ok"]
        /\ UNCHANGED <<site, domain, host, disk, nextSiteId, genJob, dep, bld,
                       tip, last, cycle, hist, gens, job, probe>>

(***************************************************************************)
(* The bulk generation thread, phase by phase                              *)
(* (content_generator.py generate_site_content_background, only_new =      *)
(* False as routes/sites.py generate starts it).                           *)
(***************************************************************************)

(* Lines 367-405: load the site, commit generating, build every prompt.    *)
(* Phase 1 is outside any try: an exception in it (page.brand is None for  *)
(* a review page whose brand row was deleted, a page row deleted since the *)
(* query) ends the thread.                                                 *)
JobPrompts ==
    /\ genJob # 0
    /\ job.pc = "idle"
    /\ IF site.id # genJob
       THEN /\ genJob' = 0
            /\ UNCHANGED <<site, job, did>>
       ELSE \E promptsOk \in BOOLEAN :
              LET todo == SitePages(pages, site.id)
              IN  /\ ~promptsOk => todo # {}
                  /\ site' = [site EXCEPT !.status = "generating"]
                  /\ genJob' = IF promptsOk THEN genJob ELSE 0
                  /\ job' = IF promptsOk THEN [NoJob EXCEPT !.pc = "calls",
                                                           !.todo = todo]
                            ELSE NoJob
                  /\ did' = [op |-> "bulk_prompts", page |-> 0, arg |-> todo,
                             res |-> IF promptsOk THEN "ok" ELSE "raised"]
    /\ UNCHANGED <<domain, host, disk, nextSiteId, dep, bld, tip, last, cycle,
                   pages, hist, gens, probe>>

(* Lines 407-444: the API calls in the pool.  returned is the set of pages *)
(* whose call returned content; any other call raised, or was cancelled    *)
(* after one raised.  The pool is joined before line 437, so every call    *)
(* that returned is collected, in the loop or after it.                    *)
JobCalls ==
    /\ job.pc = "calls"
    /\ \A p \in job.todo : gens[p] < MaxGens
    /\ \E returned \in SUBSET job.todo :
         /\ gens' = [p \in PageIds |-> IF p \in returned THEN gens[p] + 1
                                       ELSE gens[p]]
         /\ job' = [job EXCEPT !.pc = "save", !.results = returned,
                               !.failed = (returned # job.todo)]
    /\ did' = [op |-> "bulk_calls", page |-> 0, arg |-> job.todo, res |-> "ok"]
    /\ UNCHANGED <<site, domain, host, disk, nextSiteId, genJob, dep, bld, tip,
                   last, cycle, pages, hist, probe>>

(* One save of phase 3 for every page of S, in any order. *)
RECURSIVE SaveAll(_, _, _, _)
SaveAll(ps, hs, S, g) ==
    IF S = {} THEN [ps |-> ps, hs |-> hs]
    ELSE LET p == CHOOSE x \in S : TRUE
             r == save_content_to_page(ps[p], hs[p], g[p])
         IN  SaveAll([ps EXCEPT ![p] = r.pg], [hs EXCEPT ![p] = r.h],
                     S \ {p}, g)

(* routes/sites.py delete_page: the row and, by cascade, its history rows  *)
(* go; children of the page lose their parent (ondelete SET NULL).  The    *)
(* route looks at no status, so it also runs while a job is under way.     *)
DeletePage ==
    /\ site.id # 0
    /\ \E p \in SitePages(pages, site.id) :
         /\ pages' = [q \in PageIds |->
                        IF q = p THEN NoPage
                        ELSE IF pages[q].parent = p
                             THEN [pages[q] EXCEPT !.parent = 0]
                             ELSE pages[q]]
         /\ hist' = [hist EXCEPT ![p] = <<>>]
         /\ did' = [op |-> "delete_page", page |-> p, arg |-> 0, res |-> "ok"]
    /\ UNCHANGED <<site, domain, host, disk, nextSiteId, genJob, dep, bld, tip,
                   last, cycle, gens, job, probe>>

(* Lines 446-473: save and commit page by page, in the order the calls     *)
(* completed.  Saving a page whose row was deleted since phase 1 raises    *)
(* (no row to load or to update): what was committed before it stays, the  *)
(* rest of the results is dropped and failed is written.                   *)
(* Without an exception: failed if a call had failed, else generated.      *)
JobSave ==
    /\ job.pc = "save"
    /\ LET alive == {p \in job.results : pages[p].site # 0}
           raised == alive # job.results
       IN  \E saved \in (IF raised THEN SUBSET alive ELSE {job.results}) :
             LET r == SaveAll(pages, hist, saved, gens)
             IN  /\ pages' = r.ps
                 /\ hist' = r.hs
                 /\ site' = IF site.id # genJob THEN site
                            ELSE [site EXCEPT !.status =
                                    IF raised \/ job.failed THEN "failed"
                                    ELSE "generated"]
                 /\ did' = [op |-> "bulk", page |-> 0, arg |-> job.results,
                            res |-> IF raised THEN "save_failed"
                                    ELSE IF job.failed THEN "api_failed"
                                    ELSE "ok"]
    /\ genJob' = 0
    /\ job' = NoJob
    /\ UNCHANGED <<domain, host, disk, nextSiteId, dep, bld, tip, last, cycle,
                   gens, probe>>

NextContent ==
    \/ CreateSite
    \/ AddOneEvergreen
    \/ GenerateStart
    \/ JobPrompts
    \/ JobCalls
    \/ JobSave
    \/ RegeneratePage
    \/ RestoreContent
    \/ EditPage

SpecContent == Init /\ [][NextContent]_vars

(* Bulk generation over the pages of a site. *)
NextGenerate ==
    \/ CreateSite
    \/ AddEvergreen
    \/ GenerateStart
    \/ JobPrompts
    \/ JobCalls
    \/ JobSave

SpecGenerate == Init /\ [][NextGenerate]_vars

(* C12: a site in generating has its generation thread running, so the     *)
(* thread's final write can still take the site out of generating.         *)
C12_GeneratingHasJob ==
    (site.id # 0 /\ site.status = "generating") => genJob = site.id

(***************************************************************************)
(* Menu nesting (models.py SitePage._validate_nav_parent).  The validator  *)
(* runs on every assignment to nav_parent_id; parent_id = 0 stands for     *)
(* None, and an id above MaxPages for one no row has.                      *)
(***************************************************************************)
validate_nav_parent(ps, self, parent_id) ==
    IF parent_id = 0 THEN "ok"
    ELSE IF parent_id = self THEN "own parent"
    ELSE IF parent_id \notin PageIds \/ ps[parent_id].site = 0 THEN "missing"
    ELSE IF ps[parent_id].parent # 0 THEN "one level"
    ELSE "ok"

SetNavParent ==
    \E self \in {q \in PageIds : pages[q].site # 0}, parent_id \in 0..(MaxPages + 1) :
        LET v == validate_nav_parent(pages, self, parent_id)
        IN  /\ pages' = IF v = "ok" THEN [pages EXCEPT ![self].parent = parent_id]
                        ELSE pages
            /\ did' = [op |-> "set_parent", page |-> self, arg |-> parent_id,
                       res |-> v]
            /\ UNCHANGED <<site, domain, host, disk, nextSiteId, genJob, dep, bld,
                           tip, last, cycle, hist, gens, job, probe>>

InitNav ==
    /\ InitRows
    /\ pages = [p \in PageIds |->
                   NewPage(IF p <= 2 THEN 1 ELSE 2, "evergreen", 0, p)]
    /\ probe = NoProbe

NextNav == SetNavParent

SpecNav == InitNav /\ [][NextNav]_vars

(* C13: every page with a parent has a parent that is another page, of the *)
(* same site, and itself without a parent.                                 *)
C13_OneLevelSameSite ==
    \A q \in PageIds :
        pages[q].parent # 0 =>
            /\ pages[q].parent # q
            /\ pages[pages[q].parent].site = pages[q].site
            /\ pages[pages[q].parent].parent = 0

(* C14: whenever a step replaces the generated content of a page, the      *)
(* replaced content is in a history row the step appended.                 *)
C14_OverwriteArchives ==
    [][\A p \in PageIds :
          (/\ pages[p].site # 0
           /\ pages[p].is_generated
           /\ pages[p].content # 0
           /\ pages'[p].content # pages[p].content)
          => \E i \in (Len(hist[p]) + 1)..Len(hist'[p]) :
                 hist'[p][i].content = pages[p].content]_vars

(* C15: generating a page once more after k generations in sequence leaves *)
(* exactly k history rows, versions 1..k with the contents of generations  *)
(* 1..k, and generation k + 1 live.                                        *)
C15_SequentialHistory ==
    [][LET InSequence(ps, hs, p, k) ==
               /\ ps[p].content = k
               /\ ps[p].is_generated = (k > 0)
               /\ Len(hs[p]) = (IF k = 0 THEN 0 ELSE k - 1)
               /\ \A i \in 1..Len(hs[p]) :
                      hs[p][i] = [version |-> i, content |-> i]
       IN  \A p \in PageIds : \A k \in 0..MaxGens :
               (/\ InSequence(pages, hist, p, k)
                /\ did'.op \in {"regenerate", "bulk"}
                /\ pages'[p].content = k + 1)
               => InSequence(pages', hist', p, k + 1)]_vars

(* Three generations of one page: two history rows and the third live. *)
C15_Witness ==
    \E p \in PageIds :
        /\ did.op \in {"regenerate", "bulk"}
        /\ pages[p].content = 3
        /\ hist[p] = <<[version |-> 1, content |-> 1], [version |-> 2, content |-> 2]>>

(* C16: a restore of history row i makes the live content equal to that    *)
(* row's content and appends one row, numbered one above the highest       *)
(* version, holding what was live; every other history row stays as it     *)
(* was.                                                                    *)
C16_RestoreArchivesLive ==
    [][(did'.op = "restore" /\ (pages' # pages \/ hist' # hist)) =>
          LET p == did'.page
              i == did'.arg
          IN  /\ pages'[p].content = hist[p][i].content
              /\ hist'[p] = Append(hist[p], [version |-> MaxVersion(hist[p]) + 1,
                                             content |-> pages[p].content])
              /\ \A q \in PageIds \ {p} : hist'[q] = hist[q]]_vars

(* A restore of the first of at least two rows, another content live before. *)
C16_Witness ==
    /\ did.op = "restore"
    /\ did.arg = 1
    /\ Len(hist[did.page]) >= 3
    /\ pages[did.page].content = hist[did.page][1].content
    /\ hist[did.page][Len(hist[did.page])].content # pages[did.page].content

(* Bulk generation over the pages the wizard made, with pages deleted     *)
(* meanwhile.                                                              *)
NextBulk ==
    \/ CreateWithPages
    \/ GenerateStart
    \/ JobPrompts
    \/ JobCalls
    \/ JobSave
    \/ DeletePage

SpecBulk == Init /\ [][NextBulk]_vars

(* C18: when the bulk job ends after a failed API call, every page that   *)
(* still exists and whose call returned holds the returned content with    *)
(* is_generated set, and the site is failed.                               *)
C18_SuccessesPersisted ==
    [][(job.pc = "save" /\ job'.pc = "idle" /\ job.failed /\ site.id = genJob) =>
          /\ site'.status = "failed"
          /\ \A p \in job.results :
                 pages[p].site # 0 =>
                     /\ pages'[p].is_generated
                     /\ pages'[p].content = gens[p]]_vars

(* Page creation through the wizard, the add-page form and the tips       *)
(* pipeline.                                                               *)
NextPages ==
    \/ CreateWithPages
    \/ AddPage
    \/ TipsCreatePage

SpecPages == Init /\ [][NextPages]_vars

(* C17: after every creation no two pages of a site share a page type      *)
(* with no brand and no topic, a (page type, brand) or a (page type,       *)
(* topic); a creation that is turned down or fails leaves the page rows    *)
(* as they were.                                                           *)
C17_PagesUnique ==
    [][/\ \A p, q \in PageIds :
              LET a == pages'[p]
                  b == pages'[q]
              IN  p # q =>
                      ~(/\ a.site # 0
                        /\ a.site = b.site
                        /\ a.type = b.type
                        /\ \/ a.brand = 0 /\ a.topic = 0
                              /\ b.brand = 0 /\ b.topic = 0
                           \/ a.brand # 0 /\ a.brand = b.brand
                           \/ a.topic # 0 /\ a.topic = b.topic)
       /\ (did'.op \in {"create", "add_page", "tips"}
           /\ did'.res \in {"refused", "failed"}) => pages' = pages]_vars

(* A second evergreen page with the topic of an existing one was turned    *)
(* down, beside two evergreen pages that differ only in their topic.       *)
C17_Witness ==
    /\ did.op \in {"create", "add_page"}
    /\ did.res \in {"refused", "failed"}
    /\ \E p, q \in PageIds :
         /\ p # q
         /\ pages[p].site # 0
         /\ pages[p].type = "evergreen"
         /\ pages[q] = [pages[p] EXCEPT !.topic = pages[q].topic]
         /\ pages[q].topic # pages[p].topic
         /\ did.arg \in {<<"evergreen", 0, pages[p].topic>>}

(***************************************************************************)
(* The rebuild banner of the site page.                                    *)
(***************************************************************************)
RebuildInputs ==
    [built_at : 0..MaxTime,
     site_pages :
         UNION {[1..n -> {[is_generated |-> FALSE, generated_at |-> 0]}
                            \cup {[is_generated |-> TRUE, generated_at |-> t] :
                                     t \in 1..MaxTime}] :
                   n \in 0..MaxPages},
     done : {FALSE},
     out : {FALSE}]

(* The check with >= in the place of >. *)
needs_rebuild_NotStrict(built_at, site_pages) ==
    IF built_at = 0
    THEN \E i \in DOMAIN site_pages : site_pages[i].is_generated
    ELSE IF \E i \in DOMAIN site_pages : ~site_pages[i].is_generated
    THEN TRUE
    ELSE \E i \in DOMAIN site_pages :
             /\ site_pages[i].generated_at # 0
             /\ site_pages[i].generated_at >= built_at

(* routes/sites.py _needs_rebuild *)
needs_rebuild(built_at, site_pages) ==
    IF built_at = 0
    THEN \E i \in DOMAIN site_pages : site_pages[i].is_generated
    ELSE IF \E i \in DOMAIN site_pages : ~site_pages[i].is_generated
    THEN TRUE
    ELSE \E i \in DOMAIN site_pages :
             /\ site_pages[i].generated_at # 0
             /\ site_pages[i].generated_at > built_at

(* routes/sites.py detail: the banner is computed for the site shown. *)
NeedsRebuild ==
    /\ probe \in RebuildInputs
    /\ probe' = [probe EXCEPT !.done = TRUE,
                              !.out = needs_rebuild(probe.built_at,
                                                    probe.site_pages)]
    /\ UNCHANGED <<site, domain, host, disk, nextSiteId, genJob, dep, bld, tip,
                   last, cycle, pages, hist, gens, job, did>>

InitRebuild ==
    /\ InitRows
    /\ pages = [p \in PageIds |-> NoPage]
    /\ probe \in RebuildInputs

NextRebuild == NeedsRebuild

SpecRebuild == InitRebuild /\ [][NextRebuild]_vars

build_brand_info_list ==
    [b \in Brands |-> [slug |-> b, selling_points |-> "absent",
                       short_description |-> "absent",
                       feature_badges |-> "absent"]]

(* site_builder.py _build_brand_lookup: slug to the reference of the dict  *)
(* in the list given; no dict is copied.                                   *)
build_brand_lookup(refs) == [b \in refs |-> b]

RenderLists ==
    {l \in UNION {[1..n ->
                     [type : {"homepage", "comparison"}, brands : SUBSET Brands]
                         \cup [type : {"brand-review"},
                               brands : {{b} : b \in Brands}]] :
                  n \in 1..MaxPages} :
        \A i, j \in DOMAIN l :
            (i # j /\ l[i].type = l[j].type) =>
                /\ l[i].type = "brand-review"
                /\ l[i].brands # l[j].brands}

(* build_site, lines 426-457: the homepage enriches copies (dict(b)); the  *)
(* comparison page assigns feature_badges through comp_lookup, whose       *)
(* values are the dicts of the shared list.  objs are the shared dicts     *)
(* after the page, ctx the brand dicts the template is given.              *)
render_page(objs, page) ==
    IF page.type = "homepage"
    THEN [objs |-> objs,
          ctx |-> [b \in Brands |->
                     LET v == IF b \in page.brands THEN "content" ELSE "default"
                     IN  [objs[b] EXCEPT !.selling_points = v,
                                         !.short_description = v,
                                         !.feature_badges = v]]]
    ELSE IF page.type = "comparison"
    THEN LET comp_lookup == build_brand_lookup(Brands)
             after == [b \in Brands |->
                         IF b \in page.brands /\ b \in DOMAIN comp_lookup
                         THEN [objs[comp_lookup[b]] EXCEPT
                                   !.feature_badges = "content"]
                         ELSE objs[b]]
         IN  [objs |-> after, ctx |-> after]
    ELSE [objs |-> objs, ctx |-> objs]

(* One turn of the page loop of build_site. *)
RenderPage ==
    /\ probe.todo # <<>>
    /\ LET r == render_page(probe.objs, Head(probe.todo))
       IN  probe' = [todo |-> Tail(probe.todo),
                     objs |-> r.objs,
                     page |-> Head(probe.todo),
                     ctx |-> r.ctx]
    /\ UNCHANGED <<site, domain, host, disk, nextSiteId, genJob, dep, bld, tip,
                   last, cycle, pages, hist, gens, job, did>>

InitRender ==
    /\ InitRows
    /\ pages = [p \in PageIds |-> NoPage]
    /\ \E l \in RenderLists :
         probe = [todo |-> l, objs |-> build_brand_info_list,
                  page |-> [type |-> "none", brands |-> {}],
                  ctx |-> build_brand_info_list]

NextRender == RenderPage

SpecRender == InitRender /\ [][NextRender]_vars

(* C20: after every page rendered, the dicts of the shared brand list and  *)
(* of the shared lookup are as _build_brand_info_list made them.           *)
C20_SharedBrandsUnchanged ==
    probe.objs = build_brand_info_list

(***************************************************************************)
(* The page files of the release directories (site_builder.py build_site,  *)
(* lines 351-356 and 383-561).  A page is known by its slug; files[v] is   *)
(* the set of page files in v{v} of the site's output directory.           *)
(***************************************************************************)
(* routes/sites.py build with build_site, the files it leaves: written are *)
(* the pages rendered before the exception, or all of them.                *)
(* os.makedirs(version_dir, exist_ok=True) takes an existing directory as  *)
(* it is, with what it holds, and the page loop opens the files of the     *)
(* pages it renders for writing.                                           *)
FilesBuild ==
    /\ probe.status \in {"generated", "built"}
    /\ probe.version <= MaxBuilds
    /\ \E written \in SUBSET probe.slugs, ok \in BOOLEAN :
         /\ ok => written = probe.slugs
         /\ probe' = [probe EXCEPT
                !.files[probe.version] =
                    @ \cup written,
                !.status = IF ok THEN "built" ELSE "failed",
                !.version = IF ok THEN @ + 1 ELSE @,
                !.op = IF ok THEN "build_ok" ELSE "build_failed",
                !.dir = probe.version]
    /\ UNCHANGED <<site, domain, host, disk, nextSiteId, genJob, dep, bld, tip,
                   last, cycle, pages, hist, gens, job, did>>

(* routes/sites.py generate and the job's last write, all calls returning. *)
FilesGenerate ==
    /\ probe.status \in {"failed", "built"}
    /\ probe' = [probe EXCEPT !.status = "generated", !.op = "generate"]
    /\ UNCHANGED <<site, domain, host, disk, nextSiteId, genJob, dep, bld, tip,
                   last, cycle, pages, hist, gens, job, did>>

(* routes/sites.py delete_page *)
FilesDeletePage ==
    /\ \E s \in probe.slugs :
         probe' = [probe EXCEPT !.slugs = @ \ {s}, !.op = "delete_page"]
    /\ UNCHANGED <<site, domain, host, disk, nextSiteId, genJob, dep, bld, tip,
                   last, cycle, pages, hist, gens, job, did>>

(* routes/sites.py edit_page: page.slug = form slug *)
FilesReslug ==
    /\ \E s \in probe.slugs, n \in (1..MaxPages) \ probe.slugs :
         probe' = [probe EXCEPT !.slugs = (@ \ {s}) \cup {n}, !.op = "edit_page"]
    /\ UNCHANGED <<site, domain, host, disk, nextSiteId, genJob, dep, bld, tip,
                   last, cycle, pages, hist, gens, job, did>>

InitFiles ==
    /\ InitRows
    /\ pages = [p \in PageIds |-> NoPage]
    /\ \E S \in SUBSET (1..MaxPages) :
         /\ S # {}
         /\ probe = [slugs |-> S, files |-> [v \in 1..(MaxBuilds + 1) |-> {}],
                     status |-> "generated", version |-> 1, op |-> "none",
                     dir |-> 0]

NextFiles ==
    \/ FilesBuild
    \/ FilesGenerate
    \/ FilesDeletePage
    \/ FilesReslug

SpecFiles == InitFiles /\ [][NextFiles]_vars

(* C21: after a successful build into v{N} the page files of v{N} are      *)
(* exactly those of the site's pages.                                      *)
C21_CleanVersionDir ==
    probe.op = "build_ok" => probe.files[probe.dir] = probe.slugs

(* C22: a deploy whose deployment call raised leaves the site failed and   *)
(* the domain's status as it was before the request.                       *)
C22_FailedDeploy ==
    [][(last'.op = "deploy" /\ last'.res = "failed") =>
          /\ site'.status = "failed"
          /\ domain'.status = domain.status]_vars

(* A deploy that raised after it had repointed current, the domain still   *)
(* assigned.                                                               *)
C22_Witness ==
    /\ last.op = "deploy"
    /\ last.res = "failed"
    /\ last.flipped
    /\ site.status = "failed"
    /\ domain.status = "assigned"

(***************************************************************************)
(* deploy_site called on any site row: with or without a domain, built or  *)
(* not, against a host with or without releases.                           *)
(***************************************************************************)
DeployInputs ==
    [s : {s \in [id : {1},
                  status : {"draft", "generated", "built", "deployed", "failed"},
                  output_path : 0..1, current_version : 1..2,
                  deployed_at : BOOLEAN, domain : BOOLEAN] :
              /\ s.output_path < s.current_version
              /\ s.deployed_at => s.domain /\ s.output_path # 0},
     dm : {NewDomain, [NewDomain EXCEPT !.status = "assigned"]},
     h : {EmptyHost,
          [EmptyHost EXCEPT !.rel[1] = "files", !.current = 1, !.nginx = "http"]},
     in : Inputs, done : {FALSE}, out : {0}]

DeploySiteCall ==
    /\ probe \in DeployInputs
    /\ probe' = [probe EXCEPT !.done = TRUE,
                              !.out = deploy_site(probe.s, probe.dm, probe.h,
                                                  probe.in)]
    /\ UNCHANGED <<site, domain, host, disk, nextSiteId, genJob, dep, bld, tip,
                   last, cycle, pages, hist, gens, job, did>>

InitDeployCall ==
    /\ InitRows
    /\ pages = [p \in PageIds |-> NoPage]
    /\ probe \in {x \in DeployInputs : x.s.domain <=> x.dm.status = "assigned"}

NextDeployCall == DeploySiteCall

SpecDeployCall == InitDeployCall /\ [][NextDeployCall]_vars

(* C23: deploy_site on a site without a domain or without an output path   *)
(* raises, and the site row, the domain row and the host are as before.    *)
C23_PreconditionFailure ==
    (probe.done /\ (~probe.s.domain \/ probe.s.output_path = 0)) =>
        /\ probe.out.c.exc
        /\ probe.out.s = probe.s
        /\ probe.out.dm = probe.dm
        /\ probe.out.c.h = probe.h

(* The call on a site with a domain that was never built, where every      *)
(* remote command would have succeeded.                                    *)
C23_Witness ==
    /\ probe.done
    /\ probe.s.domain
    /\ probe.s.output_path = 0
    /\ probe.in = NoFailure
    /\ probe.out.c.exc

(***************************************************************************)
(* rollback_site called without a target on a site at any version.         *)
(***************************************************************************)
RollbackInputs ==
    [s : {[NewSite(1) EXCEPT !.current_version = v, !.output_path = v - 1,
                             !.status = st, !.domain = TRUE,
                             !.deployed_at = (st = "deployed")] :
              v \in 1..3, st \in {"draft", "built", "deployed", "failed"}},
     h : {EmptyHost,
          [EmptyHost EXCEPT !.rel[1] = "files", !.current = 1, !.nginx = "http"],
          [EmptyHost EXCEPT !.rel[1] = "files", !.rel[2] = "files",
                            !.current = 2, !.nginx = "ssl", !.cert = TRUE]},
     fail : 0..2, done : {FALSE}, out : {0}]

RollbackCall ==
    /\ probe \in RollbackInputs
    /\ probe' = [probe EXCEPT !.done = TRUE,
                              !.out = rollback_site(probe.s, probe.h, 0,
                                                    probe.fail)]
    /\ UNCHANGED <<site, domain, host, disk, nextSiteId, genJob, dep, bld, tip,
                   last, cycle, pages, hist, gens, job, did>>

InitRollbackCall ==
    /\ InitRows
    /\ pages = [p \in PageIds |-> NoPage]
    /\ probe \in RollbackInputs

NextRollbackCall == RollbackCall

SpecRollbackCall == InitRollbackCall /\ [][NextRollbackCall]_vars

(* C24: a rollback without a target aims at current_version - 1; at        *)
(* version 1 it is rejected and the host is as before; otherwise a         *)
(* rollback that repoints current repoints it to v(current_version - 1).   *)
C24_DefaultTarget ==
    probe.done =>
        /\ probe.out.target = probe.s.current_version - 1
        /\ probe.s.current_version = 1 =>
               probe.out.res = "rejected" /\ probe.out.h = probe.h
        /\ probe.s.current_version > 1 =>
               /\ probe.out.res # "rejected"
               /\ probe.out.h.current
                      \in {probe.h.current, probe.s.current_version - 1}
               /\ probe.out.res = "ok" =>
                      probe.out.h.current = probe.s.current_version - 1

(* A site at version 1 whose rollback was rejected although every remote   *)
(* command would have succeeded.                                           *)
C24_Witness ==
    /\ probe.done
    /\ probe.s.current_version = 1
    /\ probe.fail = 0
    /\ probe.h.current = 1
    /\ probe.out.res = "rejected"

(***************************************************************************)
(* _prune_releases on the names ls prints.  A release name is "v" and the  *)
(* decimal digits of its number, here the sequence of the digits; ls -1    *)
(* prints the names in lexical order.                                      *)
(***************************************************************************)
ReleaseName(n) == IF n < 10 THEN <<n>> ELSE <<n \div 10, n % 10>>

(* int(name.lstrip('v')) *)
version_key(name) ==
    IF Len(name) = 1 THEN name[1] ELSE 10 * name[1] + name[2]

(* ls -1 {releases_dir} *)
RECURSIVE ls(_)
ls(names) ==
    IF names = {} THEN <<>>
    ELSE LET less(a, b) ==
                 \/ a[1] < b[1]
                 \/ /\ a[1] = b[1]
                    /\ \/ Len(a) < Len(b)
                       \/ Len(a) = 2 /\ Len(b) = 2 /\ a[2] < b[2]
             m == CHOOSE x \in names : \A y \in names \ {x} : less(x, y)
         IN  <<m>> \o ls(names \ {m})

(* A sort that compares the names as strings. *)
sorted_versions_AsStrings(entries) == entries

(* sorted(entries, key=version_key): a stable sort, an entry's place is    *)
(* the number of entries that go before it.                                *)
sorted_versions(entries) ==
    LET before(i) ==
            {k \in DOMAIN entries :
                \/ version_key(entries[k]) < version_key(entries[i])
                \/ /\ version_key(entries[k]) = version_key(entries[i])
                   /\ k < i}
    IN  [r \in DOMAIN entries |->
            entries[CHOOSE i \in DOMAIN entries :
                        Cardinality(before(i)) + 1 = r]]

(* deployer.py _prune_releases: the names given to rm -rf. *)
prune_names(entries, active_version) ==
    LET versions == sorted_versions(entries)
        to_delete == IF Len(versions) > MAX_RELEASES
                     THEN SubSeq(versions, 1, Len(versions) - MAX_RELEASES)
                     ELSE <<>>
    IN  {to_delete[i] : i \in {j \in DOMAIN to_delete :
                                  to_delete[j] # active_version}}

PruneInputs ==
    {x \in [releases : SUBSET (1..MaxRelease), active : 1..MaxRelease,
            done : {FALSE}, out : {{}}] : x.active \in x.releases}

PruneCall ==
    /\ probe \in PruneInputs
    /\ probe' = [probe EXCEPT
           !.done = TRUE,
           !.out = prune_names(ls({ReleaseName(n) : n \in probe.releases}),
                               ReleaseName(probe.active))]
    /\ UNCHANGED <<site, domain, host, disk, nextSiteId, genJob, dep, bld, tip,
                   last, cycle, pages, hist, gens, job, did>>

InitPruneCall ==
    /\ InitRows
    /\ pages = [p \in PageIds |-> NoPage]
    /\ probe \in PruneInputs

NextPruneCall == PruneCall

SpecPruneCall == InitPruneCall /\ [][NextPruneCall]_vars

(* C25: the prune step removes exactly the releases that have at least     *)
(* three releases with a higher number and are not the active one.         *)
C25_PruneExactly ==
    probe.done =>
        probe.out =
            {ReleaseName(n) : n \in
                {m \in probe.releases :
                    /\ m # probe.active
                    /\ Cardinality({k \in probe.releases : k > m})
                           >= MAX_RELEASES}}

(* v1..v10 with v10 active: v1..v7 removed. *)
C25_Witness ==
    /\ probe.done
    /\ probe.releases = 1..10
    /\ probe.active = 10
    /\ probe.out = {ReleaseName(n) : n \in 1..7}

(***************************************************************************)
(* The deploy handler on a built site with a domain, with and without a    *)
(* certificate, against a fresh host and a host that holds every release   *)
(* below the newest.                                                       *)
(***************************************************************************)
CertInputs ==
    {x \in [s : {[NewSite(1) EXCEPT !.status = st, !.output_path = lv,
                                     !.current_version = lv + 1,
                                     !.domain = TRUE,
                                     !.deployed_at = (st = "deployed")] :
                      st \in {"built", "deployed"},
                      lv \in {1, Cardinality(Versions)}},
            dm : [status : {"assigned", "deployed"}, ssl_provisioned : BOOLEAN],
            h : {[rel |-> [v \in Versions |->
                              IF v < n THEN "files" ELSE "absent"],
                  current |-> n - 1, nginx |-> IF n = 1 THEN "none" ELSE ng,
                  cert |-> ct] :
                     n \in {1, Cardinality(Versions)}, ng \in {"http", "ssl"},
                     ct \in BOOLEAN},
            in : Inputs, done : {FALSE}, out : {0}] :
        /\ x.dm.ssl_provisioned => x.h.cert
        /\ (x.h.nginx = "ssl") = x.h.cert
        /\ x.s.status = "deployed" <=> x.dm.status = "deployed"}

DeployRouteCall ==
    /\ probe \in CertInputs
    /\ probe' = [probe EXCEPT !.done = TRUE,
                              !.out = DeployRoute(probe.s, probe.dm, probe.h,
                                                  probe.in)]
    /\ UNCHANGED <<site, domain, host, disk, nextSiteId, genJob, dep, bld, tip,
                   last, cycle, pages, hist, gens, job, did>>

InitCertCall ==
    /\ InitRows
    /\ pages = [p \in PageIds |-> NoPage]
    /\ probe \in CertInputs

NextCertCall == DeployRouteCall

SpecCertCall == InitCertCall /\ [][NextCertCall]_vars

(* C26: a deploy in which only certbot fails ends without an exception,    *)
(* with the site and the domain deployed, ssl_provisioned still false and  *)
(* the old releases pruned; and ssl_provisioned goes from false to true    *)
(* only in a deploy whose certbot command succeeded.                       *)
C26_CertFailureSwallowed ==
    probe.done =>
        LET lv == probe.s.output_path
            onlyCertbotFails ==
                /\ ~probe.dm.ssl_provisioned
                /\ ~probe.in.certOk
                /\ probe.in.fail \in {0, 7}
                /\ probe.in.walk \/ probe.h.rel[lv] = "files"
        IN  /\ onlyCertbotFails =>
                /\ ~probe.out.c.exc
                /\ probe.out.s.status = "deployed"
                /\ probe.out.dm.status = "deployed"
                /\ ~probe.out.dm.ssl_provisioned
                /\ probe.out.c.h.cert = probe.h.cert
                /\ Cardinality({v \in Versions \ {lv} :
                                   probe.out.c.h.rel[v] # "absent"})
                       <= MAX_RELEASES
            /\ (probe.out.dm.ssl_provisioned /\ ~probe.dm.ssl_provisioned) =>
                   /\ probe.in.certOk
                   /\ probe.out.c.h.cert

(* The newest release deployed to the full host while certbot fails: the   *)
(* oldest release is pruned.                                               *)
C26_Witness ==
    /\ probe.done
    /\ ~probe.dm.ssl_provisioned
    /\ ~probe.in.certOk
    /\ probe.in.fail = 0
    /\ probe.s.output_path = Cardinality(Versions)
    /\ probe.h.rel[1] = "files"
    /\ probe.out.c.h.rel[1] = "absent"
    /\ probe.out.s.status = "deployed"
    /\ ~probe.out.dm.ssl_provisioned

(***************************************************************************)
(* Brand Data Merger (site_builder.py _build_brand_info_list): the dict of *)
(* one site brand from its three layers.  A text column holds None, the    *)
(* empty string or a text; a layer that has no row (no BrandGeo for the    *)
(* site's GEO, no SiteBrandOverride) is a record with row = FALSE.         *)
(***************************************************************************)
Texts(layer) == {"None", "", layer}

Truthy(v) == v \notin {"None", ""}

(* Python's a or b *)
Or(a, b) == IF Truthy(a) THEN a ELSE b

(* A merger in which an override row replaces the lower layers whatever    *)
(* its fields hold.                                                        *)
brand_info_RowWins(brand, bg, ov) ==
    [affiliate_link |->
         IF ov.row THEN ov.custom_affiliate_link
         ELSE Or(brand.affiliate_link, "#"),
     welcome_bonus |->
         IF ov.row THEN ov.custom_welcome_bonus
         ELSE IF bg.row THEN bg.welcome_bonus ELSE "None",
     bonus_code |->
         IF ov.row THEN ov.custom_bonus_code
         ELSE IF bg.row THEN bg.bonus_code ELSE "None",
     description |->
         IF ov.row THEN ov.custom_description ELSE brand.description]

(* site_builder.py _build_brand_info_list, lines 217-244: the four merged  *)
(* keys of the dict.                                                       *)
brand_info(brand, bg, ov) ==
    [affiliate_link |->
         Or(Or(IF ov.row /\ Truthy(ov.custom_affiliate_link)
               THEN ov.custom_affiliate_link ELSE "None",
               brand.affiliate_link), "#"),
     welcome_bonus |->
         Or(IF ov.row /\ Truthy(ov.custom_welcome_bonus)
            THEN ov.custom_welcome_bonus ELSE "None",
            IF bg.row THEN bg.welcome_bonus ELSE "None"),
     bonus_code |->
         Or(IF ov.row /\ Truthy(ov.custom_bonus_code)
            THEN ov.custom_bonus_code ELSE "None",
            IF bg.row THEN bg.bonus_code ELSE "None"),
     description |->
         Or(IF ov.row /\ Truthy(ov.custom_description)
            THEN ov.custom_description ELSE "None",
            brand.description)]

MergeInputs ==
    [brand : [affiliate_link : Texts("brand"), description : Texts("brand")],
     bg : [row : {TRUE}, welcome_bonus : Texts("geo"),
           bonus_code : Texts("geo")]
              \cup [row : {FALSE}, welcome_bonus : {"None"},
                    bonus_code : {"None"}],
     ov : [row : {TRUE}, custom_affiliate_link : Texts("override"),
           custom_welcome_bonus : Texts("override"),
           custom_bonus_code : Texts("override"),
           custom_description : Texts("override")]
              \cup [row : {FALSE}, custom_affiliate_link : {"None"},
                    custom_welcome_bonus : {"None"},
                    custom_bonus_code : {"None"},
                    custom_description : {"None"}],
     done : {FALSE}, out : {0}]

MergeBrand ==
    /\ probe \in MergeInputs
    /\ probe' = [probe EXCEPT !.done = TRUE,
                              !.out = brand_info(probe.brand, probe.bg,
                                                 probe.ov)]
    /\ UNCHANGED <<site, domain, host, disk, nextSiteId, genJob, dep, bld, tip,
                   last, cycle, pages, hist, gens, job, did>>

InitMerge ==
    /\ InitRows
    /\ pages = [p \in PageIds |-> NoPage]
    /\ probe \in MergeInputs

NextMerge == MergeBrand

SpecMerge == InitMerge /\ [][NextMerge]_vars

(* C27: each merged key holds the value of the most specific layer whose   *)
(* value is not null or empty, and an override field that is null or empty *)
(* leaves the key as it is without the override row.                       *)
C27_MostSpecificNonEmpty ==
    probe.done =>
        \A key \in {"affiliate_link", "welcome_bonus", "bonus_code",
                    "description"} :
            LET layers ==
                    CASE key = "affiliate_link" ->
                           <<probe.ov.custom_affiliate_link, "None",
                             probe.brand.affiliate_link>>
                      [] key = "welcome_bonus" ->
                           <<probe.ov.custom_welcome_bonus,
                             probe.bg.welcome_bonus, "None">>
                      [] key = "bonus_code" ->
                           <<probe.ov.custom_bonus_code, probe.bg.bonus_code,
                             "None">>
                      [] OTHER ->
                           <<probe.ov.custom_description, "None",
                             probe.brand.description>>
                filled == {i \in 1..3 : Truthy(layers[i])}
                noOverride == [row |-> FALSE, custom_affiliate_link |-> "None",
                               custom_welcome_bonus |-> "None",
                               custom_bonus_code |-> "None",
                               custom_description |-> "None"]
            IN  /\ filled # {} =>
                       probe.out[key] =
                           layers[CHOOSE i \in filled : \A j \in filled : i <= j]
                /\ ~Truthy(layers[1]) =>
                       probe.out[key] =
                           brand_info(probe.brand, probe.bg, noOverride)[key]

(* An override row with a welcome bonus only: the bonus code is the GEO's  *)
(* and the affiliate link the brand's.                                     *)
C27_Witness ==
    /\ probe.done
    /\ probe.ov.row
    /\ probe.ov.custom_welcome_bonus = "override"
    /\ probe.ov.custom_bonus_code = "None"
    /\ probe.ov.custom_affiliate_link = ""
    /\ probe.bg.bonus_code = "geo"
    /\ probe.brand.affiliate_link = "brand"
    /\ probe.out.welcome_bonus = "override"
    /\ probe.out.bonus_code = "geo"
    /\ probe.out.affiliate_link = "brand"

(***************************************************************************)
(* Content writes to one page by concurrent requests and threads.  Each    *)
(* writer has its own session: it loads the page row, later queries the    *)
(* highest history version, and its commit inserts the history row it      *)
(* built and updates the page.  Nothing locks the page between the steps,  *)
(* and content_history has no unique constraint on (site_page_id,          *)
(* version) (models.py:260-270).                                           *)
(***************************************************************************)
WriterIds == 1..ConcWriters

IdleWriter ==
    [pc |-> "idle", kind |-> "none", live |-> [content |-> 0, is_generated |-> FALSE],
     max |-> 0, new |-> 0]

(* db.session.get(SitePage, page_id) in _generate_single_page_background,  *)
(* regenerate_page, the bulk job's phase 3 and restore_content; a restore  *)
(* also loads the history row it restores.  new is the content the writer  *)
(* will store: what the API returns, or the content of the history row.    *)
WriterLoad(t) ==
    /\ probe.w[t].pc = "idle"
    /\ probe.n < MaxWrites
    /\ \E kind \in {"background", "regenerate", "bulk", "restore"} :
         \E new \in IF kind = "restore"
                    THEN {probe.h[i].content : i \in 1..Len(probe.h)}
                    ELSE {probe.n + 2} :
             probe' = [probe EXCEPT
                 !.n = @ + 1,
                 !.w[t] = [pc |-> "loaded", kind |-> kind, live |-> probe.pg,
                           max |-> 0, new |-> new]]
    /\ UNCHANGED <<site, domain, host, disk, nextSiteId, genJob, dep, bld, tip,
                   last, cycle, pages, hist, gens, job, did>>

(* session.query(ContentHistory.version)...order_by(desc).first() *)
WriterQuery(t) ==
    /\ probe.w[t].pc = "loaded"
    /\ probe' = [probe EXCEPT !.w[t].pc = "queried",
                              !.w[t].max = MaxVersion(probe.h)]
    /\ UNCHANGED <<site, domain, host, disk, nextSiteId, genJob, dep, bld, tip,
                   last, cycle, pages, hist, gens, job, did>>

(* session.add(history), the assignments to the page, and the commit. *)
WriterCommit(t) ==
    /\ probe.w[t].pc = "queried"
    /\ LET w == probe.w[t]
           archives == w.live.content # 0 /\ w.live.is_generated
       IN  probe' = [probe EXCEPT
               !.h = IF archives
                     THEN Append(@, [version |-> w.max + 1,
                                     content |-> w.live.content])
                     ELSE @,
               !.pg = [content |-> w.new,
                       is_generated |-> IF w.kind = "restore"
                                        THEN w.live.is_generated ELSE TRUE],
               !.w[t] = IdleWriter]
    /\ UNCHANGED <<site, domain, host, disk, nextSiteId, genJob, dep, bld, tip,
                   last, cycle, pages, hist, gens, job, did>>

InitWriters ==
    /\ InitRows
    /\ pages = [p \in PageIds |-> NoPage]
    /\ \E generated \in BOOLEAN :
         probe = [pg |-> [content |-> IF generated THEN 1 ELSE 0,
                          is_generated |-> generated],
                  h |-> <<>>, n |-> 0,
                  w |-> [t \in WriterIds |-> IdleWriter]]

NextWriters ==
    \E t \in WriterIds :
        \/ WriterLoad(t)
        \/ WriterQuery(t)
        \/ WriterCommit(t)

SpecWriters == InitWriters /\ [][NextWriters]_vars

(* C28: the history versions of the page are pairwise distinct and are     *)
(* 1..n for its n history rows, whatever the interleaving of the writers.  *)
C28_VersionsSequential ==
    /\ \A i, j \in 1..Len(probe.h) :
           i # j => probe.h[i].version # probe.h[j].version
    /\ {probe.h[i].version : i \in 1..Len(probe.h)} = 1..Len(probe.h)

(***************************************************************************)
(* Live content against the content of the last build.  now is the clock:  *)
(* every operation takes a later timestamp.  rendered[p] is the content of *)
(* page p that the last successful build wrote; h[p] are the history rows  *)
(* of the page with the generated_at each one keeps.                       *)
(***************************************************************************)
StalePages == 1..StalePageCount

(* save_content_to_page: the live content is archived with its             *)
(* generated_at, the new content is stamped now.                           *)
StaleRegenerate ==
    /\ probe.now < MaxClock
    /\ \E p \in StalePages :
         probe' = [probe EXCEPT
             !.now = @ + 1,
             !.h[p] = IF probe.pg[p].content # 0 /\ probe.pg[p].is_generated
                      THEN Append(@, [content |-> probe.pg[p].content,
                                      generated_at |-> probe.pg[p].generated_at])
                      ELSE @,
             !.pg[p] = [content |-> probe.now + 1, is_generated |-> TRUE,
                        generated_at |-> probe.now + 1],
             !.op = "regenerate"]
    /\ UNCHANGED <<site, domain, host, disk, nextSiteId, genJob, dep, bld, tip,
                   last, cycle, pages, hist, gens, job, did>>

(* routes/sites.py restore_content: the page takes the content and the     *)
(* generated_at of the history row (lines 385-387).                        *)
StaleRestore ==
    /\ probe.now < MaxClock
    /\ \E p \in StalePages :
         \E i \in 1..Len(probe.h[p]) :
             probe' = [probe EXCEPT
                 !.now = @ + 1,
                 !.h[p] = IF probe.pg[p].content # 0 /\ probe.pg[p].is_generated
                          THEN Append(@, [content |-> probe.pg[p].content,
                                          generated_at |->
                                              probe.pg[p].generated_at])
                          ELSE @,
                 !.pg[p] = [@ EXCEPT !.content = probe.h[p][i].content,
                                     !.generated_at =
                                         probe.h[p][i].generated_at],
                 !.op = "restore"]
    /\ UNCHANGED <<site, domain, host, disk, nextSiteId, genJob, dep, bld, tip,
                   last, cycle, pages, hist, gens, job, did>>

(* routes/sites.py edit_page with a JSON document: content_json is         *)
(* assigned, generated_at is not (lines 544-554).                          *)
StaleEdit ==
    /\ probe.now < MaxClock
    /\ \E p \in StalePages :
         probe' = [probe EXCEPT
             !.now = @ + 1,
             !.pg[p] = [@ EXCEPT !.content = 0 - (probe.now + 1)],
             !.op = "edit"]
    /\ UNCHANGED <<site, domain, host, disk, nextSiteId, genJob, dep, bld, tip,
                   last, cycle, pages, hist, gens, job, did>>

(* build_site succeeding: every page is rendered from its live content and *)
(* built_at is set at the end (site_builder.py:601-604).                   *)
StaleBuild ==
    /\ probe.now < MaxClock
    /\ probe' = [probe EXCEPT
           !.now = @ + 1,
           !.rendered = [p \in StalePages |-> probe.pg[p].content],
           !.built_at = probe.now + 1,
           !.op = "build"]
    /\ UNCHANGED <<site, domain, host, disk, nextSiteId, genJob, dep, bld, tip,
                   last, cycle, pages, hist, gens, job, did>>

(* Every page generated by the first bulk generation, nothing built. *)
InitStale ==
    /\ InitRows
    /\ pages = [p \in PageIds |-> NoPage]
    /\ probe = [now |-> 1, built_at |-> 0,
                pg |-> [p \in StalePages |->
                           [content |-> 1, is_generated |-> TRUE,
                            generated_at |-> 1]],
                h |-> [p \in StalePages |-> <<>>],
                rendered |-> [p \in StalePages |-> 0],
                op |-> "generate"]

NextStale ==
    \/ StaleRegenerate
    \/ StaleRestore
    \/ StaleEdit
    \/ StaleBuild

SpecStale == InitStale /\ [][NextStale]_vars

(* C29: when the site was built and the live content of a page is not the  *)
(* content the last build rendered, _needs_rebuild returns true.           *)
C29_StaleNeedsRebuild ==
    (/\ probe.built_at # 0
     /\ \E p \in StalePages : probe.pg[p].content # probe.rendered[p])
        => needs_rebuild(probe.built_at, probe.pg)

(***************************************************************************)
(* The site's status and the statuses of the domains, with more than one   *)
(* domain row to choose from.  probe.site.domain is site.domain_id, 0 for  *)
(* none; probe.dom[d] is the status of domain d.                           *)
(***************************************************************************)
DomainIds == 1..DomainCount

(* routes/sites.py create *)
DomCreate ==
    /\ ~probe.site.exists
    /\ probe' = [probe EXCEPT
           !.site = [exists |-> TRUE, status |-> "draft", domain |-> 0,
                     output_path |-> FALSE, deployed_at |-> FALSE],
           !.op = "create"]
    /\ UNCHANGED <<site, domain, host, disk, nextSiteId, genJob, dep, bld, tip,
                   last, cycle, pages, hist, gens, job, did>>

(* routes/sites.py assign_domain: refused unless the domain chosen is      *)
(* available; the domain the site had goes back to available.              *)
DomAssign ==
    /\ probe.site.exists
    /\ \E d \in DomainIds :
         /\ probe.dom[d] = "available"
         /\ probe' = [probe EXCEPT
                !.dom = [e \in DomainIds |->
                            IF e = d THEN "assigned"
                            ELSE IF e = probe.site.domain THEN "available"
                            ELSE @[e]],
                !.site.domain = d,
                !.op = "assign"]
    /\ UNCHANGED <<site, domain, host, disk, nextSiteId, genJob, dep, bld, tip,
                   last, cycle, pages, hist, gens, job, did>>

(* routes/sites.py generate *)
DomGenerateStart ==
    /\ probe.site.exists
    /\ probe.site.status # "generating"
    /\ ~probe.job
    /\ probe' = [probe EXCEPT !.site.status = "generating", !.job = TRUE,
                              !.op = "generate"]
    /\ UNCHANGED <<site, domain, host, disk, nextSiteId, genJob, dep, bld, tip,
                   last, cycle, pages, hist, gens, job, did>>

(* content_generator.py generate_site_content_background, lines 451-473,   *)
(* started with only_new = False; a thread whose site row is gone ends.    *)
DomGenerateEnd ==
    /\ probe.job
    /\ \E ok \in BOOLEAN :
         probe' = [probe EXCEPT
             !.site.status = IF ~probe.site.exists THEN @
                             ELSE IF ok THEN "generated" ELSE "failed",
             !.job = FALSE,
             !.op = "generated"]
    /\ UNCHANGED <<site, domain, host, disk, nextSiteId, genJob, dep, bld, tip,
                   last, cycle, pages, hist, gens, job, did>>

(* routes/sites.py build *)
DomBuild ==
    /\ probe.site.exists
    /\ probe.site.status \in {"generated", "built"}
    /\ \E ok \in BOOLEAN :
         probe' = [probe EXCEPT
             !.site.status = IF ok THEN "built" ELSE "failed",
             !.site.output_path = IF ok THEN TRUE ELSE @,
             !.op = "build"]
    /\ UNCHANGED <<site, domain, host, disk, nextSiteId, genJob, dep, bld, tip,
                   last, cycle, pages, hist, gens, job, did>>

(* routes/sites.py deploy with deployer.py deploy_site: it raises for a    *)
(* site without an output path (lines 126-129) and writes both statuses    *)
(* at its end (lines 206-211).                                             *)
DomDeploy ==
    /\ probe.site.exists
    /\ probe.site.domain # 0
    /\ probe.site.status \in {"built", "deployed"}
    /\ \E ok \in BOOLEAN :
         probe' = [probe EXCEPT
             !.site.status = IF ok /\ probe.site.output_path
                             THEN "deployed" ELSE "failed",
             !.site.deployed_at = IF ok /\ probe.site.output_path
                                  THEN TRUE ELSE @,
             !.dom[probe.site.domain] = IF ok /\ probe.site.output_path
                                        THEN "deployed" ELSE @,
             !.op = "deploy"]
    /\ UNCHANGED <<site, domain, host, disk, nextSiteId, genJob, dep, bld, tip,
                   last, cycle, pages, hist, gens, job, did>>

(* routes/sites.py rollback: no status is written. *)
DomRollback ==
    /\ probe.site.exists
    /\ probe.site.domain # 0
    /\ probe' = [probe EXCEPT !.op = "rollback"]
    /\ UNCHANGED <<site, domain, host, disk, nextSiteId, genJob, dep, bld, tip,
                   last, cycle, pages, hist, gens, job, did>>

(* routes/sites.py delete_site *)
DomDelete ==
    /\ probe.site.exists
    /\ probe' = [probe EXCEPT
           !.dom = [e \in DomainIds |->
                       IF e = probe.site.domain THEN "available" ELSE @[e]],
           !.site = [exists |-> FALSE, status |-> "draft", domain |-> 0,
                     output_path |-> FALSE, deployed_at |-> FALSE],
           !.op = "delete"]
    /\ UNCHANGED <<site, domain, host, disk, nextSiteId, genJob, dep, bld, tip,
                   last, cycle, pages, hist, gens, job, did>>

InitDomains ==
    /\ InitRows
    /\ pages = [p \in PageIds |-> NoPage]
    /\ probe = [site |-> [exists |-> FALSE, status |-> "draft", domain |-> 0,
                     output_path |-> FALSE, deployed_at |-> FALSE],
                dom |-> [d \in DomainIds |-> "available"],
                job |-> FALSE, op |-> "none"]

NextDomains ==
    \/ DomCreate
    \/ DomAssign
    \/ DomGenerateStart
    \/ DomGenerateEnd
    \/ DomBuild
    \/ DomDeploy
    \/ DomRollback
    \/ DomDelete

SpecDomains == InitDomains /\ [][NextDomains]_vars

(* C30: a site whose status is deployed has a domain, and the status of    *)
(* that domain is deployed.                                                *)
C30_DeployedHasDeployedDomain ==
    (probe.site.exists /\ probe.site.status = "deployed") =>
        /\ probe.site.domain # 0
        /\ probe.dom[probe.site.domain] = "deployed"

====
